---------------------------- MODULE Spec2Model ----------------------------
(***************************************************************************)
(* Model of src/main.py: the WhatsApp session manager.                     *)
(*                                                                         *)
(* Strings are sequences of letters.  A letter is either one character of  *)
(* a file name ("A", "1", ...) or one of the fixed words the program       *)
(* looks for (".zip", "Default", "extracted_", ...), taken as one letter   *)
(* of a larger alphabet; no letter of the alphabet is part of another, so  *)
(* comparing, searching and replacing letter by letter agrees with the     *)
(* same operation on the characters.  The build modelled is the Windows    *)
(* one (7z.exe, os.sep = "\"): Qt hands paths over with "/", os.path.join  *)
(* and os.walk add "\".                                                    *)
(***************************************************************************)
EXTENDS Integers, Sequences, FiniteSets, TLC

(***************************************************************************)
(* Bounds of the model.                                                    *)
(***************************************************************************)
MaxRequests == 2
MaxCategoryOps == 2
MaxDeleteErrors == 1

(***************************************************************************)
(* Python string operations.                                               *)
(***************************************************************************)
None == "None"
NonePath == <<>>
NoneIdx == -100

SEP == "\\"
ALT == "/"
Seps == {SEP, ALT}
Drives == {"C:"}

\* str.lower() on one letter
LowerLetter(c) ==
    CASE c = ".ZIP" -> ".zip"
      [] c = ".RAR" -> ".rar"
      [] c = "A" -> "a"
      [] c = "B" -> "b"
      [] c = "F" -> "f"
      [] c = "G" -> "g"
      [] c = "P" -> "p"
      [] c = "Q" -> "q"
      [] c = "X" -> "x"
      [] c = "Y" -> "y"
      [] c = "WhatsApp" -> "whatsapp"
      [] OTHER -> c

Lower(s) == [i \in 1..Len(s) |-> LowerLetter(s[i])]

\* s.startswith(prefix)
StartsWith(s, prefix) ==
    Len(prefix) <= Len(s) /\ SubSeq(s, 1, Len(prefix)) = prefix

\* s.endswith(suffix)
EndsWith(s, suffix) ==
    Len(suffix) <= Len(s) /\ SubSeq(s, Len(s) - Len(suffix) + 1, Len(s)) = suffix

\* sub in s
Contains(s, sub) ==
    \E i \in 1..(Len(s) - Len(sub) + 1) : SubSeq(s, i, i + Len(sub) - 1) = sub

\* s.replace(old, new): every non-overlapping occurrence, left to right
RECURSIVE Replace(_, _, _)
Replace(s, old, new) ==
    IF Len(old) = 0 \/ Len(s) < Len(old) THEN s
    ELSE IF SubSeq(s, 1, Len(old)) = old
         THEN new \o Replace(SubSeq(s, Len(old) + 1, Len(s)), old, new)
         ELSE <<s[1]>> \o Replace(Tail(s), old, new)

\* s.count(c) for a one-letter c
Count(s, c) == Cardinality({i \in 1..Len(s) : s[i] = c})

(***************************************************************************)
(* os.path of the Windows build (ntpath).                                  *)
(***************************************************************************)
LastSep(p) ==
    LET idx == {i \in 1..Len(p) : p[i] \in Seps}
    IN  IF idx = {} THEN 0 ELSE CHOOSE i \in idx : \A j \in idx : j <= i

DriveLen(p) == IF Len(p) > 0 /\ p[1] \in Drives THEN 1 ELSE 0

\* os.path.basename
Basename(p) ==
    LET i == IF LastSep(p) > DriveLen(p) THEN LastSep(p) ELSE DriveLen(p)
    IN  SubSeq(p, i + 1, Len(p))

RECURSIVE RStripSeps(_)
RStripSeps(s) ==
    IF Len(s) > 0 /\ s[Len(s)] \in Seps THEN RStripSeps(SubSeq(s, 1, Len(s) - 1)) ELSE s

\* os.path.dirname
Dirname(p) ==
    LET d == DriveLen(p)
        rest == SubSeq(p, d + 1, Len(p))
        i == LastSep(rest)
        head == SubSeq(rest, 1, i)
        stripped == RStripSeps(head)
    IN  SubSeq(p, 1, d) \o (IF stripped = <<>> THEN head ELSE stripped)

\* os.path.join(a, b) for a relative b
Join(a, b) ==
    IF a = <<>> \/ a[Len(a)] \in Seps \/ a[Len(a)] \in Drives
    THEN a \o b
    ELSE a \o <<SEP>> \o b

DotLetters == {".zip", ".rar", ".7z", ".ZIP", ".RAR", ".txt"}

\* index of the letter that starts the extension of p (0 when there is none)
ExtStart(p) ==
    LET b == LastSep(p)
        idx == {i \in (b + 2)..Len(p) : p[i] \in DotLetters}
    IN  IF idx = {} THEN 0 ELSE CHOOSE i \in idx : \A j \in idx : j <= i

\* os.path.splitext(p)[0]
SplitextRoot(p) == IF ExtStart(p) = 0 THEN p ELSE SubSeq(p, 1, ExtStart(p) - 1)

\* os.path.splitext(p)[1]
SplitextExt(p) == IF ExtStart(p) = 0 THEN <<>> ELSE SubSeq(p, ExtStart(p), Len(p))

ArchiveExts == {<<".zip">>, <<".rar">>, <<".7z">>}

\* name.lower().endswith(('.rar', '.zip', '.7z'))
HasArchiveExt(p) == \E e \in ArchiveExts : EndsWith(Lower(p), e)

\* the name of one file or directory under which the file system finds it
Norm(p) == [i \in 1..Len(p) |-> IF p[i] = ALT THEN SEP ELSE p[i]]


(***************************************************************************)
(* The file system.  disk.dirs is the set of directories and disk.files    *)
(* maps every file to its size in bytes and, for an archive, to what it    *)
(* holds (the name of a tree of Templates).                                *)
(***************************************************************************)
\* p is q or lies below q (both as the file system names them)
Under(p, q) == p = q \/ (StartsWith(p, q) /\ p[Len(q) + 1] = SEP)

IsDir(disk, p) == Norm(p) \in disk.dirs

IsFile(disk, p) == Norm(p) \in DOMAIN disk.files

\* os.path.exists
Exists(disk, p) == IsDir(disk, p) \/ IsFile(disk, p)

\* os.access(p, os.R_OK) of an existing path
Readable(disk, p) == Norm(p) \notin disk.locked

\* os.path.getsize
GetSize(disk, p) == disk.files[Norm(p)].size

\* the ancestors of p that os.makedirs creates with it
Ancestors(p) == {SubSeq(p, 1, i - 1) : i \in {j \in 2..Len(p) : p[j] = SEP /\ j > 2}}

\* os.makedirs(p, exist_ok=True); raises when a file is in the way
MakedirsOk(disk, p) == ~IsFile(disk, p) /\ \A a \in Ancestors(Norm(p)) : a \notin DOMAIN disk.files

Makedirs(disk, p) ==
    [disk EXCEPT !.dirs = @ \union {Norm(p)} \union Ancestors(Norm(p))]

\* shutil.rmtree(p) that succeeds
Rmtree(disk, p) ==
    LET keep == {f \in DOMAIN disk.files : ~Under(f, Norm(p))}
    IN  [disk EXCEPT !.dirs = {d \in disk.dirs : ~Under(d, Norm(p))},
                     !.locked = {d \in disk.locked : ~Under(d, Norm(p))},
                     !.files = [f \in keep |-> disk.files[f]]]

\* the names of the entries of directory p that satisfy the test
ChildNames(all, p) ==
    LET n == Norm(p)
    IN  {SubSeq(q, Len(n) + 2, Len(q)) :
            q \in {r \in all : /\ Len(r) > Len(n) + 1
                               /\ Under(r, n)
                               /\ \A i \in (Len(n) + 2)..Len(r) : r[i] # SEP}}

\* os.listdir(p)
Listdir(disk, p) == ChildNames(disk.dirs, p) \union ChildNames(DOMAIN disk.files, p)

\* the order in which a directory lists its entries: by name
LetterOrder ==
    <<"1", "2", "3", "A", "B", "F", "G", "P", "Q", "X", "Y", "Cookies", "Default",
      "Local Storage", "leveldb", "extracted_", "single_", "session-", "whatsapp",
      ".7z", ".rar", ".txt", ".zip", ".RAR", ".ZIP", "WhatsApp", "W", "C:", SEP, ALT>>

Rank(c) == CHOOSE i \in 1..Len(LetterOrder) : LetterOrder[i] = c

RECURSIVE NameLess(_, _)
NameLess(a, b) ==
    IF a = <<>> THEN b # <<>>
    ELSE IF b = <<>> THEN FALSE
    ELSE IF a[1] = b[1] THEN NameLess(Tail(a), Tail(b))
    ELSE Rank(a[1]) < Rank(b[1])

RECURSIVE SortNames(_)
SortNames(S) ==
    IF S = {} THEN <<>>
    ELSE LET m == CHOOSE x \in S : \A y \in S \ {x} : NameLess(x, y)
         IN  <<m>> \o SortNames(S \ {m})

\* os.walk(top), top-down: the sequence of (root, dirs, files)
RECURSIVE Walk(_, _)
RECURSIVE WalkEach(_, _, _)
Walk(disk, top) ==
    LET ds == SortNames(ChildNames(disk.dirs, top))
        fs == SortNames(ChildNames(DOMAIN disk.files, top))
    IN  IF ~IsDir(disk, top) \/ ~Readable(disk, top) THEN <<>>
        ELSE <<[root |-> top, dirs |-> ds, files |-> fs]>> \o WalkEach(disk, top, ds)

WalkEach(disk, top, ds) ==
    IF ds = <<>> THEN <<>>
    ELSE Walk(disk, Join(top, Head(ds))) \o WalkEach(disk, top, Tail(ds))

(***************************************************************************)
(* What the archives of the model hold.                                    *)
(***************************************************************************)
Cookies == <<"Cookies">>
Default == <<"Default">>

TemplateNames ==
    {"profile", "nested", "wrapped", "sub", "twin", "deep", "layered", "stack", "clash",
     "mixed", "plain", "empty"}

File(rel, size, content) == [rel |-> rel, size |-> size, content |-> content]

Template(t) ==
    CASE t = "profile" ->
            [dirs |-> {Default},
             files |-> {File(Default \o <<SEP>> \o Cookies, 500, None)}]
      [] t = "nested" ->
            [dirs |-> {},
             files |-> {File(<<"X", ".zip">>, 500, "profile"),
                        File(<<"Y", ".rar">>, 500, "sub"),
                        File(<<"B", ".7z">>, 500, "plain"),
                        File(<<"Q", ".zip">>, 50, "empty")}]
      [] t = "wrapped" ->
            [dirs |-> {},
             files |-> {File(<<"Y", ".rar">>, 500, "sub")}]
      [] t = "sub" ->
            [dirs |-> {<<"P">>, <<"P", SEP>> \o Default},
             files |-> {File(<<"P", SEP>> \o Default \o <<SEP>> \o Cookies, 500, None)}]
      [] t = "twin" ->
            [dirs |-> {<<"P">>, <<"P", SEP>> \o Default, <<"Q">>, <<"Q", SEP>> \o Default},
             files |-> {File(<<"P", SEP>> \o Default \o <<SEP>> \o Cookies, 500, None),
                        File(<<"Q", SEP>> \o Default \o <<SEP>> \o Cookies, 500, None)}]
      [] t = "deep" ->
            [dirs |-> {<<"1">>, <<"1", SEP, "2">>, <<"1", SEP, "2", SEP, "3">>,
                       <<"1", SEP, "2", SEP, "3", SEP, "P">>,
                       <<"1", SEP, "2", SEP, "3", SEP, "G">>,
                       <<"1", SEP, "2", SEP, "3", SEP, "G", SEP, "Q">>},
             files |-> {File(<<"1", SEP, "2", SEP, "3", SEP, "P", SEP>> \o Cookies, 500, None),
                        File(<<"1", SEP, "2", SEP, "3", SEP, "G", SEP, "Q", SEP>> \o Cookies,
                             500, None)}]
      [] t = "layered" ->
            [dirs |-> {<<"1">>, <<"1", SEP, "P">>, <<"1", SEP, "P", SEP>> \o Default},
             files |-> {File(<<"1", SEP, "P", SEP>> \o Default \o <<SEP>> \o Cookies,
                             500, None)}]
      [] t = "stack" ->
            [dirs |-> {},
             files |-> {File(<<"Y", ".rar">>, 500, "layered")}]
      [] t = "clash" ->
            [dirs |-> {},
             files |-> {File(<<"X", ".zip">>, 500, "profile"),
                        File(<<"X", ".rar">>, 500, "sub")}]
      [] t = "mixed" ->
            [dirs |-> {<<"P">>, <<"P", SEP>> \o Default},
             files |-> {File(<<"P", SEP>> \o Default \o <<SEP>> \o Cookies, 500, None),
                        File(<<"X", ".zip">>, 500, "profile")}]
      [] t = "plain" ->
            [dirs |-> {},
             files |-> {File(<<"1", ".txt">>, 500, None)}]
      [] OTHER ->
            [dirs |-> {}, files |-> {}]

\* the tree of template t written below directory out
Materialise(disk, out, t) ==
    LET written(n, tpl) ==
            LET new == {n \o <<SEP>> \o f.rel : f \in tpl.files}
                attr(q) == LET f == CHOOSE f \in tpl.files : n \o <<SEP>> \o f.rel = q
                           IN  [size |-> f.size, content |-> f.content]
            IN  [disk EXCEPT !.dirs = @ \union {n \o <<SEP>> \o d : d \in tpl.dirs},
                             !.files = [q \in (DOMAIN disk.files) \union new |->
                                           IF q \in new THEN attr(q) ELSE disk.files[q]]]
    IN  written(Norm(out), Template(t))

(***************************************************************************)
(* ProfileClassifier: analyze_session_folder, once in the worker and once  *)
(* in the main window.                                                     *)
(***************************************************************************)
chrome_profile_files ==
    <<<<"Cookies">>, <<"Web Data">>, <<"History">>, <<"Login Data">>, <<"Preferences">>>>

\* [f for f in chrome_profile_files if os.path.exists(os.path.join(folder, f))]
profile_files_present(disk, folder) ==
    SelectSeq(chrome_profile_files, LAMBDA f : Exists(disk, Join(folder, f)))

NotAProfile ==
    [is_chrome_profile |-> FALSE, has_default_folder |-> FALSE, default_path |-> NonePath]

\* rule 1 with the directory itself as the root of the profile
analyze_profile_at_leaf(disk, folder_path) ==
    LET default_folder == Join(folder_path, Default)
        has_default == Exists(disk, default_folder) /\ IsDir(disk, default_folder)
        seen == IF has_default
                THEN [NotAProfile EXCEPT !.has_default_folder = TRUE,
                                         !.default_path = folder_path]
                ELSE NotAProfile
    IN  IF ~Exists(disk, folder_path) THEN NotAProfile
        ELSE IF ~IsDir(disk, folder_path) THEN NotAProfile
        ELSE IF ~Readable(disk, folder_path) THEN NotAProfile
        ELSE IF /\ Basename(folder_path) = Default
                /\ profile_files_present(disk, folder_path) # <<>>
        THEN [is_chrome_profile |-> TRUE, has_default_folder |-> TRUE,
              default_path |-> folder_path]
        ELSE IF has_default /\ profile_files_present(disk, default_folder) # <<>>
        THEN [seen EXCEPT !.is_chrome_profile = TRUE]
        ELSE IF profile_files_present(disk, folder_path) # <<>>
        THEN [seen EXCEPT !.is_chrome_profile = TRUE]
        ELSE IF /\ Exists(disk, Join(folder_path, <<"Local Storage">>))
                /\ \/ Len(profile_files_present(disk, folder_path)) > 0
                   \/ Exists(disk, Join(Join(folder_path, <<"Local Storage">>), <<"leveldb">>))
        THEN [seen EXCEPT !.is_chrome_profile = TRUE]
        ELSE seen

\* the classifier without the test of the right to read
analyze_without_access_test(disk, folder_path) ==
    LET default_folder == Join(folder_path, Default)
        has_default == Exists(disk, default_folder) /\ IsDir(disk, default_folder)
        seen == IF has_default
                THEN [NotAProfile EXCEPT !.has_default_folder = TRUE,
                                         !.default_path = folder_path]
                ELSE NotAProfile
    IN  IF ~Exists(disk, folder_path) THEN NotAProfile
        ELSE IF ~IsDir(disk, folder_path) THEN NotAProfile
        ELSE IF /\ Basename(folder_path) = Default
                /\ profile_files_present(disk, folder_path) # <<>>
        THEN [is_chrome_profile |-> TRUE, has_default_folder |-> TRUE,
              default_path |-> Dirname(folder_path)]
        ELSE IF has_default /\ profile_files_present(disk, default_folder) # <<>>
        THEN [seen EXCEPT !.is_chrome_profile = TRUE]
        ELSE IF profile_files_present(disk, folder_path) # <<>>
        THEN [seen EXCEPT !.is_chrome_profile = TRUE]
        ELSE IF /\ Exists(disk, Join(folder_path, <<"Local Storage">>))
                /\ \/ Len(profile_files_present(disk, folder_path)) > 0
                   \/ Exists(disk, Join(Join(folder_path, <<"Local Storage">>), <<"leveldb">>))
        THEN [seen EXCEPT !.is_chrome_profile = TRUE]
        ELSE seen

analyze_session_folder(disk, folder_path) ==
    LET default_folder == Join(folder_path, Default)
        has_default == Exists(disk, default_folder) /\ IsDir(disk, default_folder)
        seen == IF has_default
                THEN [NotAProfile EXCEPT !.has_default_folder = TRUE,
                                         !.default_path = folder_path]
                ELSE NotAProfile
    IN  IF ~Exists(disk, folder_path) THEN NotAProfile
        ELSE IF ~IsDir(disk, folder_path) THEN NotAProfile
        ELSE IF ~Readable(disk, folder_path) THEN NotAProfile
        ELSE IF /\ Basename(folder_path) = Default
                /\ profile_files_present(disk, folder_path) # <<>>
        THEN [is_chrome_profile |-> TRUE, has_default_folder |-> TRUE,
              default_path |-> Dirname(folder_path)]
        ELSE IF has_default /\ profile_files_present(disk, default_folder) # <<>>
        THEN [seen EXCEPT !.is_chrome_profile = TRUE]
        ELSE IF profile_files_present(disk, folder_path) # <<>>
        THEN [seen EXCEPT !.is_chrome_profile = TRUE]
        ELSE IF /\ Exists(disk, Join(folder_path, <<"Local Storage">>))
                /\ \/ Len(profile_files_present(disk, folder_path)) > 0
                   \/ Exists(disk, Join(Join(folder_path, <<"Local Storage">>), <<"leveldb">>))
        THEN [seen EXCEPT !.is_chrome_profile = TRUE]
        ELSE seen

mgr_analyze_session_folder(disk, folder_path) ==
    LET default_folder == Join(folder_path, Default)
        has_default == Exists(disk, default_folder) /\ IsDir(disk, default_folder)
        seen == IF has_default
                THEN [NotAProfile EXCEPT !.has_default_folder = TRUE,
                                         !.default_path = folder_path]
                ELSE NotAProfile
    IN  IF ~Exists(disk, folder_path) THEN NotAProfile
        ELSE IF ~IsDir(disk, folder_path) THEN NotAProfile
        ELSE IF ~Readable(disk, folder_path) THEN NotAProfile
        ELSE IF /\ Basename(folder_path) = Default
                /\ profile_files_present(disk, folder_path) # <<>>
        THEN [is_chrome_profile |-> TRUE, has_default_folder |-> TRUE,
              default_path |-> Dirname(folder_path)]
        ELSE IF has_default /\ profile_files_present(disk, default_folder) # <<>>
        THEN [seen EXCEPT !.is_chrome_profile = TRUE]
        ELSE IF profile_files_present(disk, folder_path) # <<>>
        THEN [seen EXCEPT !.is_chrome_profile = TRUE]
        ELSE IF /\ Exists(disk, Join(folder_path, <<"Local Storage">>))
                /\ \/ Len(profile_files_present(disk, folder_path)) > 0
                   \/ Exists(disk, Join(Join(folder_path, <<"Local Storage">>), <<"leveldb">>))
        THEN [seen EXCEPT !.is_chrome_profile = TRUE]
        ELSE seen

(***************************************************************************)
(* ArchiveTool: extract_with_7zip.  env is what the host and the external  *)
(* tool answer: env.test (the self-test passes), env.exit (the extract     *)
(* command exits 0); disk.tool tells whether 7z.exe is found.  A run of    *)
(* the tool that exits 0 writes the tree the archive holds; one that fails *)
(* writes nothing.                                                         *)
(* The result is [ok, err, disk, cmds]: ok is FALSE when the function      *)
(* raises, cmds are the commands it has run.                               *)
(***************************************************************************)
MinArchiveSize == 100

Envs == [test : BOOLEAN, exit : BOOLEAN]

Raised(err, disk) == [ok |-> FALSE, err |-> err, disk |-> disk]

\* the commands run_process has run, each with its outcome
Extracted(env) ==
    <<[cmd |-> "t", success |-> env.test], [cmd |-> "x", success |-> env.exit]>>

Ran(r, cmds) == [ok |-> r.ok, err |-> r.err, disk |-> r.disk, cmds |-> cmds]

\* the function without the look into the output directory
extract_unverified(disk, archive_path, output_dir, env) ==
    LET parent == Dirname(output_dir)
        d1 == IF Exists(disk, parent) THEN disk ELSE Makedirs(disk, parent)
        d2 == Makedirs(d1, output_dir)
        d3 == Materialise(d2, output_dir, disk.files[Norm(archive_path)].content)
    IN  IF ~Exists(disk, archive_path) THEN Ran(Raised("ArchiveNotFound", disk), <<>>)
        ELSE IF ~IsFile(disk, archive_path) THEN Ran(Raised("ArchiveNotFound", disk), <<>>)
        ELSE IF GetSize(disk, archive_path) < MinArchiveSize
        THEN Ran(Raised("ArchiveTooSmall", disk), <<>>)
        ELSE IF ~disk.tool THEN Ran(Raised("ToolNotFound", disk), <<>>)
        ELSE IF ~Exists(disk, parent) /\ ~MakedirsOk(disk, parent)
        THEN Ran(Raised("PermissionDenied", disk), <<>>)
        ELSE IF ~MakedirsOk(d1, output_dir) THEN Ran(Raised("FileExists", d1), SubSeq(Extracted(env), 1, 1))
        ELSE IF ~env.exit THEN Ran(Raised("ExtractionFailed", d2), Extracted(env))
        ELSE IF ~Exists(d3, output_dir) THEN Ran(Raised("ExtractionFailed", d3), Extracted(env))
        ELSE [ok |-> TRUE, err |-> None, disk |-> d3, cmds |-> Extracted(env)]

\* the function giving up when the self-test fails
extract_gated_by_test(disk, archive_path, output_dir, env) ==
    LET parent == Dirname(output_dir)
        d1 == IF Exists(disk, parent) THEN disk ELSE Makedirs(disk, parent)
        d2 == Makedirs(d1, output_dir)
        d3 == Materialise(d2, output_dir, disk.files[Norm(archive_path)].content)
    IN  IF ~Exists(disk, archive_path) THEN Ran(Raised("ArchiveNotFound", disk), <<>>)
        ELSE IF ~IsFile(disk, archive_path) THEN Ran(Raised("ArchiveNotFound", disk), <<>>)
        ELSE IF GetSize(disk, archive_path) < MinArchiveSize
        THEN Ran(Raised("ArchiveTooSmall", disk), <<>>)
        ELSE IF ~disk.tool THEN Ran(Raised("ToolNotFound", disk), <<>>)
        ELSE IF ~Exists(disk, parent) /\ ~MakedirsOk(disk, parent)
        THEN Ran(Raised("PermissionDenied", disk), <<>>)
        ELSE IF ~MakedirsOk(d1, output_dir) THEN Ran(Raised("FileExists", d1), SubSeq(Extracted(env), 1, 1))
        ELSE IF ~env.test THEN Ran(Raised("ExtractionFailed", d2), SubSeq(Extracted(env), 1, 1))
        ELSE IF ~env.exit THEN Ran(Raised("ExtractionFailed", d2), Extracted(env))
        ELSE IF ~Exists(d3, output_dir) THEN Ran(Raised("ExtractionFailed", d3), Extracted(env))
        ELSE IF Listdir(d3, output_dir) = {}
        THEN Ran(Raised("ArchiveEmptyOrCorrupt", d3), Extracted(env))
        ELSE [ok |-> TRUE, err |-> None, disk |-> d3, cmds |-> Extracted(env)]

extract_with_7zip(disk, archive_path, output_dir, env) ==
    LET parent == Dirname(output_dir)
        d1 == IF Exists(disk, parent) THEN disk ELSE Makedirs(disk, parent)
        d2 == Makedirs(d1, output_dir)
        \* the checks after the tool has written d3
        unpacked(d3) ==
            IF ~Exists(d3, output_dir) THEN Ran(Raised("ExtractionFailed", d3), Extracted(env))
            ELSE IF Listdir(d3, output_dir) = {}
            THEN Ran(Raised("ArchiveEmptyOrCorrupt", d3), Extracted(env))
            ELSE [ok |-> TRUE, err |-> None, disk |-> d3, cmds |-> Extracted(env)]
    IN  IF ~Exists(disk, archive_path) THEN Ran(Raised("ArchiveNotFound", disk), <<>>)
        ELSE IF ~IsFile(disk, archive_path) THEN Ran(Raised("ArchiveNotFound", disk), <<>>)
        ELSE IF GetSize(disk, archive_path) < MinArchiveSize
        THEN Ran(Raised("ArchiveTooSmall", disk), <<>>)
        ELSE IF ~disk.tool THEN Ran(Raised("ToolNotFound", disk), <<>>)
        ELSE IF ~Exists(disk, parent) /\ ~MakedirsOk(disk, parent)
        THEN Ran(Raised("PermissionDenied", disk), <<>>)
        ELSE IF ~MakedirsOk(d1, output_dir) THEN Ran(Raised("FileExists", d1), SubSeq(Extracted(env), 1, 1))
        ELSE IF ~env.exit THEN Ran(Raised("ExtractionFailed", d2), Extracted(env))
        ELSE unpacked(Materialise(d2, output_dir, disk.files[Norm(archive_path)].content))

(***************************************************************************)
(* State.                                                                  *)
(***************************************************************************)
VARIABLES
    categories,             \* self.categories
    archives,               \* self.archives
    current_archive_index,  \* self.current_archive_index
    current_category_index, \* self.current_category_index
    sessions_list,          \* the names shown in self.sessions_list
    worker,                 \* self.worker: the number of the run it refers to, 0 for none
    runs,                   \* every ExtractionWorker created, in order of creation
    queue,                  \* finished and error signals emitted and not yet delivered
    disk,                   \* the file system
    saved,                  \* what whatsapp_data.json holds
    clock,                  \* time.time()
    unlinked,               \* history: the archives the last delete_category left without category
    delete_errors,          \* the error dialogs delete_selected_archive has shown
    requests,               \* ingestion requests made so far
    pending,                \* process_drop: the paths still to be processed
    probe                   \* the last direct call of a function: its arguments and result

\* no function has been called directly
NoProbe == [op |-> "none"]

vars == <<categories, archives, current_archive_index, current_category_index,
          sessions_list, worker, runs, queue, disk, saved, clock, unlinked,
          delete_errors, requests, pending, probe>>

catalog == <<categories, archives, current_archive_index, current_category_index,
             sessions_list, saved, clock, unlinked, delete_errors>>

(***************************************************************************)
(* ExtractionWorker: the signals and the thread's run().                   *)
(***************************************************************************)
NoMsg == [kind |-> None, failed |-> <<>>]

Progress(v) ==
    [sig |-> "progress", value |-> v, sessions |-> <<>>, name |-> <<>>,
     path |-> <<>>, msg |-> NoMsg]

Finished(sessions, archive_name, archive_path) ==
    [sig |-> "finished", value |-> 0, sessions |-> sessions, name |-> archive_name,
     path |-> archive_path, msg |-> NoMsg]

Error(kind, failed) ==
    [sig |-> "error", value |-> 0, sessions |-> <<>>, name |-> <<>>,
     path |-> <<>>, msg |-> [kind |-> kind, failed |-> failed]]

Session(name, path) == [name |-> name, path |-> path]

\* ExtractionWorker.__init__
ExtractionWorker(source_path, temp_dir, is_archive) ==
    [source_path |-> source_path, temp_dir |-> temp_dir, is_archive |-> is_archive,
     pc |-> "start", source_dir |-> <<>>, session_archives |-> <<>>, i |-> 0,
     sessions |-> <<>>, failed_archives |-> <<>>, emitted |-> <<>>]

RECURSIVE Tagged(_, _)
Tagged(r, sigs) ==
    IF sigs = <<>> THEN <<>>
    ELSE <<[run |-> r, signal |-> Head(sigs)]>> \o Tagged(r, Tail(sigs))

\* a step whose finished signal is handled in the worker thread itself (a
\* direct connection): the archive is appended by the step that emits it
StepDirect(r, rec, sigs, d) ==
    LET fin == SelectSeq(sigs, LAMBDA g : g.sig = "finished")
    IN  /\ runs' = [runs EXCEPT ![r] = [rec EXCEPT !.emitted = @ \o sigs]]
        /\ queue' = queue \o Tagged(r, SelectSeq(sigs, LAMBDA g : g.sig = "error"))
        /\ disk' = d
        /\ IF fin # <<>>
           THEN LET new_archive ==
                        [name |-> fin[1].name, path |-> fin[1].path,
                         extracted_path |-> rec.temp_dir, sessions |-> fin[1].sessions,
                         category_index |-> NoneIdx, is_single_session |-> FALSE,
                         is_unpacked_archive |-> FALSE]
                IN  /\ archives' = Append(archives, new_archive)
                    /\ UNCHANGED <<categories, current_archive_index,
                                   current_category_index, sessions_list, saved, clock,
                                   unlinked, delete_errors>>
           ELSE UNCHANGED catalog
        /\ UNCHANGED <<worker, requests, pending, probe>>

\* the step of run r: its new fields, the signals it emits, the disk it leaves
Step(r, rec, sigs, d) ==
    /\ runs' = [runs EXCEPT ![r] = [rec EXCEPT !.emitted = @ \o sigs]]
    /\ queue' = queue \o Tagged(r, SelectSeq(sigs, LAMBDA g : g.sig # "progress"))
    /\ disk' = d
    /\ UNCHANGED <<catalog, worker, requests, pending, probe>>

\* the answers of the tool to one call: an archive that passes its test unpacks
ToolEnvs == {e \in Envs : e.test => e.exit}

\* the outcome of a step of the worker: its new fields, the signals it
\* emits, the disk it leaves
Result(rec, sigs, d) == {[rec |-> rec, sigs |-> sigs, d |-> d]}

\* what step 0 leaves, for each answer of the tool
Prepared(r) ==
       LET w == runs[r]
       IN  IF w.is_archive
           THEN UNION {
                  LET parent == Dirname(w.temp_dir)
                      d1 == IF Exists(disk, parent) THEN disk ELSE Makedirs(disk, parent)
                      d2 == IF Exists(d1, w.temp_dir) THEN d1 ELSE Makedirs(d1, w.temp_dir)
                      \* what follows the answer x of extract_with_7zip
                      unpacked(x) ==
                          IF ~x.ok
                          THEN Result([w EXCEPT !.pc = "done"],
                                    <<Progress(5), Error(x.err, <<>>)>>, x.disk)
                          ELSE IF Listdir(x.disk, w.temp_dir) = {}
                          THEN Result([w EXCEPT !.pc = "done", !.source_dir = w.temp_dir],
                                    <<Progress(5), Progress(30),
                                      Error("ArchiveEmptyOrCorrupt", <<>>)>>, x.disk)
                          ELSE Result([w EXCEPT !.pc = "rootcheck", !.source_dir = w.temp_dir],
                                    <<Progress(5), Progress(30)>>, x.disk)
                  IN  IF ~Exists(disk, w.source_path) \/ ~IsFile(disk, w.source_path)
                      THEN Result([w EXCEPT !.pc = "done"],
                                <<Progress(5), Error("ArchiveNotFound", <<>>)>>, disk)
                      ELSE IF ~MakedirsOk(d1, w.temp_dir)
                      THEN Result([w EXCEPT !.pc = "done"],
                                <<Progress(5), Error("PermissionDenied", <<>>)>>, d1)
                      ELSE unpacked(extract_with_7zip(d2, w.source_path, w.temp_dir, env))
                  : env \in ToolEnvs}
           ELSE IF ~Exists(disk, w.source_path)
                THEN Result([w EXCEPT !.pc = "done"], <<Error("FolderNotFound", <<>>)>>, disk)
                ELSE IF ~IsDir(disk, w.source_path)
                THEN Result([w EXCEPT !.pc = "done"], <<Error("NotADirectory", <<>>)>>, disk)
                ELSE Result([w EXCEPT !.pc = "rootcheck", !.source_dir = w.source_path],
                          <<Progress(30)>>, disk)

\* step 0: the input is unpacked, or the folder is taken as it is
Prepare(r) ==
    /\ runs[r].pc = "start"
    /\ \E o \in Prepared(r) : Step(r, o.rec, o.sigs, o.d)

\* step 1 without its return: the search goes on after the result
RootCheckNoReturn(r) ==
    /\ runs[r].pc = "rootcheck"
    /\ LET w == runs[r]
           sessions == <<Session(Basename(w.source_dir), w.source_dir)>>
       IN  IF analyze_session_folder(disk, w.source_dir).is_chrome_profile
           THEN Step(r, [w EXCEPT !.pc = "archive_search", !.sessions = sessions],
                     <<Progress(100),
                       Finished(sessions, Basename(w.source_path), w.source_path)>>, disk)
           ELSE Step(r, [w EXCEPT !.pc = "archive_search"], <<>>, disk)

\* step 1 with the session named after the input instead of the working root
RootCheckNamedByInput(r) ==
    /\ runs[r].pc = "rootcheck"
    /\ LET w == runs[r]
           sessions == <<Session(Basename(w.source_path), w.source_dir)>>
       IN  IF analyze_session_folder(disk, w.source_dir).is_chrome_profile
           THEN Step(r, [w EXCEPT !.pc = "done", !.sessions = sessions],
                     <<Progress(100),
                       Finished(sessions, Basename(w.source_path), w.source_path)>>, disk)
           ELSE Step(r, [w EXCEPT !.pc = "archive_search"], <<>>, disk)

\* what step 1 leaves
RootChecked(r) ==
       LET w == runs[r]
           sessions == <<Session(Basename(w.source_dir), w.source_dir)>>
       IN  IF analyze_session_folder(disk, w.source_dir).is_chrome_profile
           THEN Result([w EXCEPT !.pc = "done", !.sessions = sessions],
                     <<Progress(100),
                       Finished(sessions, Basename(w.source_path), w.source_path)>>, disk)
           ELSE Result([w EXCEPT !.pc = "archive_search"], <<>>, disk)

\* step 1: the working root itself may be a profile
RootCheck(r) ==
    /\ runs[r].pc = "rootcheck"
    /\ \E o \in RootChecked(r) : Step(r, o.rec, o.sigs, o.d)

RECURSIVE ArchivesIn(_, _, _)
ArchivesIn(disk_, root, files) ==
    IF files = <<>> THEN <<>>
    ELSE LET full_path == Join(root, Head(files))
             rest == ArchivesIn(disk_, root, Tail(files))
         IN  IF HasArchiveExt(Head(files)) /\ IsFile(disk_, full_path)
                /\ GetSize(disk_, full_path) >= MinArchiveSize
             THEN <<full_path>> \o rest
             ELSE rest

RECURSIVE FindArchives(_, _)
FindArchives(disk_, walk) ==
    IF walk = <<>> THEN <<>>
    ELSE ArchivesIn(disk_, Head(walk).root, Head(walk).files)
            \o FindArchives(disk_, Tail(walk))

\* step 2 followed by the search for profiles whatever it found
ArchiveSearchThenProfiles(r) ==
    /\ runs[r].pc = "archive_search"
    /\ LET w == runs[r]
           session_archives == FindArchives(disk, Walk(disk, w.source_dir))
       IN  Step(r, [w EXCEPT !.session_archives = session_archives,
                             !.pc = "profile_search"],
                <<Progress(40)>>, disk)

\* what step 2 leaves
ArchivesSearched(r) ==
       LET w == runs[r]
           session_archives == FindArchives(disk, Walk(disk, w.source_dir))
       IN  Result([w EXCEPT !.session_archives = session_archives,
                             !.pc = IF session_archives = <<>>
                                    THEN "profile_search" ELSE "extract"],
                <<Progress(40)>>, disk)

\* step 2: the archives below the working root, in the order of the walk
ArchiveSearch(r) ==
    /\ runs[r].pc = "archive_search"
    /\ \E o \in ArchivesSearched(r) : Step(r, o.rec, o.sigs, o.d)

MaxDepth == 3

RECURSIVE ProfilesIn(_, _, _)
ProfilesIn(disk_, root, dirs) ==
    IF dirs = <<>> THEN <<>>
    ELSE LET dir_path == Join(root, Head(dirs))
             rest == ProfilesIn(disk_, root, Tail(dirs))
         IN  IF ~Readable(disk_, dir_path) THEN rest
             ELSE IF analyze_session_folder(disk_, dir_path).is_chrome_profile
             THEN <<Session(Head(dirs), dir_path)>> \o rest
             ELSE rest

RECURSIVE FindProfiles(_, _, _)
FindProfiles(disk_, source_dir, walk) ==
    IF walk = <<>> THEN <<>>
    ELSE LET depth == Count(Replace(Head(walk).root, source_dir, <<>>), SEP)
             rest == FindProfiles(disk_, source_dir, Tail(walk))
         IN  IF depth > MaxDepth THEN rest
             ELSE ProfilesIn(disk_, Head(walk).root, Head(walk).dirs) \o rest

\* what step 3 leaves
ProfilesSearched(r) ==
       LET w == runs[r]
           chrome_profiles == FindProfiles(disk, w.source_dir, Walk(disk, w.source_dir))
       IN  IF chrome_profiles # <<>>
           THEN Result([w EXCEPT !.pc = "done", !.sessions = chrome_profiles],
                     <<Progress(100),
                       Finished(chrome_profiles, Basename(w.source_path), w.source_path)>>,
                     disk)
           ELSE Result([w EXCEPT !.pc = "done"], <<Error("NoProfileFound", <<>>)>>, disk)

\* step 3: without archives, the profiles in the sub-folders
ProfileSearch(r) ==
    /\ runs[r].pc = "profile_search"
    /\ \E o \in ProfilesSearched(r) : Step(r, o.rec, o.sigs, o.d)

RECURSIVE DirPaths(_, _)
DirPaths(root, dirs) ==
    IF dirs = <<>> THEN <<>> ELSE <<Join(root, Head(dirs))>> \o DirPaths(root, Tail(dirs))

RECURSIVE WalkDirPaths(_)
WalkDirPaths(walk) ==
    IF walk = <<>> THEN <<>>
    ELSE DirPaths(Head(walk).root, Head(walk).dirs) \o WalkDirPaths(Tail(walk))

\* the first directory met by the walk below session_dir that is a profile
\* the search of one level alone
FoundProfilesOneLevel(disk_, session_dir) ==
    SelectSeq(DirPaths(session_dir, SortNames(ChildNames(disk_.dirs, session_dir))),
              LAMBDA dir_path : analyze_session_folder(disk_, dir_path).is_chrome_profile)

FoundProfiles(disk_, session_dir) ==
    SelectSeq(WalkDirPaths(Walk(disk_, session_dir)),
              LAMBDA dir_path : analyze_session_folder(disk_, dir_path).is_chrome_profile)

\* for session in sessions: if session['name'] == session_name: session['path'] = dir_path; break
UpdatePath(sessions, session_name, dir_path) ==
    LET hits == {k \in 1..Len(sessions) : sessions[k].name = session_name}
        first == CHOOSE k \in hits : \A j \in hits : k <= j
    IN  IF hits = {} THEN sessions ELSE [sessions EXCEPT ![first].path = dir_path]

\* the scale taken from 0 instead of 40: int((i + 1) / total_files * 100)
CandidateProgressFromZero(i, total_files) == ((i + 1) * 100) \div total_files

\* int(40 + (i + 1) / total_files * 60)
CandidateProgress(i, total_files) == 40 + ((i + 1) * 60) \div total_files

Failure(archive_path, err) == [path |-> archive_path, error |-> err]

\* a pass that ends the loop when its candidate failed (break for continue)
AfterCandidateBreak(w, sessions, failed_archives) ==
    [w EXCEPT !.sessions = sessions,
              !.failed_archives = failed_archives,
              !.i = w.i + 1,
              !.pc = IF w.i + 1 = Len(w.session_archives)
                        \/ failed_archives # w.failed_archives
                     THEN "finalize" ELSE "extract"]

\* what one pass of the loop of step 4 leaves in the worker
AfterCandidate(w, sessions, failed_archives) ==
    [w EXCEPT !.sessions = sessions,
              !.failed_archives = failed_archives,
              !.i = w.i + 1,
              !.pc = IF w.i + 1 = Len(w.session_archives) THEN "finalize" ELSE "extract"]

\* what one pass of the loop of step 4 leaves, for each answer of the tool
CandidateExtracted(r) ==
    UNION {
         LET w == runs[r]
             total_files == Len(w.session_archives)
             archive_path == w.session_archives[w.i + 1]
             session_name == SplitextRoot(Basename(archive_path))
             session_dir == Join(w.temp_dir, session_name)
             d1 == Makedirs(disk, session_dir)
             added == Append(w.sessions, Session(session_name, session_dir))
             \* the sessions after the search for profiles below session_dir
             adopted(found, d) ==
                 IF analyze_session_folder(d, session_dir).is_chrome_profile \/ found = <<>>
                 THEN added
                 ELSE UpdatePath(added, session_name, Head(found))
             \* what follows the answer x of extract_with_7zip
             unpacked(x) ==
                 IF ~x.ok
                 THEN Result(AfterCandidate(w, w.sessions,
                                Append(w.failed_archives, Failure(archive_path, x.err))),
                           <<>>, x.disk)
                 ELSE Result(AfterCandidate(w, adopted(FoundProfiles(x.disk, session_dir), x.disk),
                                            w.failed_archives),
                           <<Progress(CandidateProgress(w.i, total_files))>>, x.disk)
         IN  IF ~MakedirsOk(disk, session_dir)
             THEN Result(AfterCandidate(w, w.sessions,
                            Append(w.failed_archives, Failure(archive_path, "FileExists"))),
                       <<>>, disk)
             ELSE unpacked(extract_with_7zip(d1, archive_path, session_dir, env))
         : env \in ToolEnvs}

\* step 4, one pass of the loop: candidate i is unpacked into its own directory
ExtractCandidate(r) ==
    /\ runs[r].pc = "extract"
    /\ \E o \in CandidateExtracted(r) : Step(r, o.rec, o.sigs, o.d)

\* the end of run() without its test of the sessions
FinalizeUnguarded(r) ==
    /\ runs[r].pc = "finalize"
    /\ LET w == runs[r]
       IN  Step(r, [w EXCEPT !.pc = "done"],
                <<Progress(100),
                  Finished(w.sessions, Basename(w.source_path), w.source_path)>>, disk)

\* the end of run(): the result or the list of failures
\* the last step naming the first failure alone
FinalizeFirstFailure(r) ==
    /\ runs[r].pc = "finalize"
    /\ LET w == runs[r]
       IN  IF w.sessions = <<>>
           THEN IF w.failed_archives # <<>>
                THEN Step(r, [w EXCEPT !.pc = "done"],
                          <<Error("AllArchivesFailed", <<w.failed_archives[1]>>)>>, disk)
                ELSE Step(r, [w EXCEPT !.pc = "done"], <<Error("NoSessions", <<>>)>>, disk)
           ELSE Step(r, [w EXCEPT !.pc = "done"],
                     <<Progress(100),
                       Finished(w.sessions, Basename(w.source_path), w.source_path)>>, disk)

\* the last step announcing its result without the progress of 100
FinalizeWithoutProgress(r) ==
    /\ runs[r].pc = "finalize"
    /\ LET w == runs[r]
       IN  IF w.sessions = <<>>
           THEN IF w.failed_archives # <<>>
                THEN Step(r, [w EXCEPT !.pc = "done"],
                          <<Error("AllArchivesFailed", w.failed_archives)>>, disk)
                ELSE Step(r, [w EXCEPT !.pc = "done"], <<Error("NoSessions", <<>>)>>, disk)
           ELSE Step(r, [w EXCEPT !.pc = "done"],
                     <<Finished(w.sessions, Basename(w.source_path), w.source_path)>>, disk)

\* the last step returning without a signal when there is no session
FinalizeSilent(r) ==
    /\ runs[r].pc = "finalize"
    /\ LET w == runs[r]
       IN  IF w.sessions = <<>>
           THEN Step(r, [w EXCEPT !.pc = "done"], <<>>, disk)
           ELSE Step(r, [w EXCEPT !.pc = "done"],
                     <<Progress(100),
                       Finished(w.sessions, Basename(w.source_path), w.source_path)>>, disk)

\* what the end of run() leaves
Finalized(r) ==
       LET w == runs[r]
       IN  IF w.sessions = <<>>
           THEN IF w.failed_archives # <<>>
                THEN Result([w EXCEPT !.pc = "done"],
                          <<Error("AllArchivesFailed", w.failed_archives)>>, disk)
                ELSE Result([w EXCEPT !.pc = "done"], <<Error("NoSessions", <<>>)>>, disk)
           ELSE Result([w EXCEPT !.pc = "done"],
                     <<Progress(100),
                       Finished(w.sessions, Basename(w.source_path), w.source_path)>>, disk)

Finalize(r) ==
    /\ runs[r].pc = "finalize"
    /\ \E o \in Finalized(r) : Step(r, o.rec, o.sigs, o.d)

\* ExtractionWorker.run, one step of it
run(r) ==
    \/ Prepare(r)
    \/ RootCheck(r)
    \/ ArchiveSearch(r)
    \/ ProfileSearch(r)
    \/ ExtractCandidate(r)
    \/ Finalize(r)

(***************************************************************************)
(* WhatsAppSessionManager: the catalog and its handlers.  Indices are the  *)
(* 0-based indices of the code; NoneIdx stands for a category_index of     *)
(* None.  A confirmation dialog answered "No" leaves the state as it is.   *)
(***************************************************************************)
Category(name, created_at) == [name |-> name, created_at |-> created_at]

Archive(name, path, extracted_path, sessions, category_index, single, unpacked) ==
    [name |-> name, path |-> path, extracted_path |-> extracted_path,
     sessions |-> sessions, category_index |-> category_index,
     is_single_session |-> single, is_unpacked_archive |-> unpacked]

SessionNames(archive) == [k \in 1..Len(archive.sessions) |-> archive.sessions[k].name]

\* s without its element number k (list.pop(k - 1))
Pop(s, k) == SubSeq(s, 1, k - 1) \o SubSeq(s, k + 1, Len(s))

(***************************************************************************)
(* json.dump and json.load.  A document is what the file holds: objects    *)
(* with their keys, arrays, strings in their escaped form, numbers, true,  *)
(* false and null.  In a string the backslash is written as a pair of      *)
(* backslashes, one letter of the document.  None is written as null.  A   *)
(* key that an archive lacks and a flag that is False read the same        *)
(* everywhere (.get), so the flags are written for every archive.          *)
(***************************************************************************)
Escape(s) == [i \in 1..Len(s) |-> IF s[i] = "\\" THEN "\\\\" ELSE s[i]]

Unescape(text) == [i \in 1..Len(text) |-> IF text[i] = "\\\\" THEN "\\" ELSE text[i]]

DumpStr(s) == [t |-> "string", text |-> Escape(s)]

\* an index, or None
DumpIndex(i) == IF i = NoneIdx THEN [t |-> "null"] ELSE [t |-> "number", value |-> i]

LoadIndex(j) == IF j.t = "null" THEN NoneIdx ELSE j.value

\* the name of a category is one letter of the model
DumpCategory(category) ==
    [t |-> "object",
     members |-> [name |-> DumpStr(<<category.name>>),
                  created_at |-> [t |-> "number", value |-> category.created_at]]]

LoadCategory(j) ==
    [name |-> Unescape(j.members.name.text)[1], created_at |-> j.members.created_at.value]

DumpArchive(archive) ==
    [t |-> "object",
     members |->
        [name |-> DumpStr(archive.name),
         path |-> DumpStr(archive.path),
         extracted_path |-> DumpStr(archive.extracted_path),
         sessions |->
            [t |-> "array",
             items |-> [k \in 1..Len(archive.sessions) |->
                          [t |-> "object",
                           members |-> [name |-> DumpStr(archive.sessions[k].name),
                                        path |-> DumpStr(archive.sessions[k].path)]]]],
         category_index |-> DumpIndex(archive.category_index),
         is_single_session |->
            [t |-> IF archive.is_single_session THEN "true" ELSE "false"],
         is_unpacked_archive |->
            [t |-> IF archive.is_unpacked_archive THEN "true" ELSE "false"]]]

LoadArchive(j) ==
    [name |-> Unescape(j.members.name.text),
     path |-> Unescape(j.members.path.text),
     extracted_path |-> Unescape(j.members.extracted_path.text),
     sessions |-> [k \in 1..Len(j.members.sessions.items) |->
                     [name |-> Unescape(j.members.sessions.items[k].members.name.text),
                      path |-> Unescape(j.members.sessions.items[k].members.path.text)]],
     category_index |-> LoadIndex(j.members.category_index),
     is_single_session |-> j.members.is_single_session.t = "true",
     is_unpacked_archive |-> j.members.is_unpacked_archive.t = "true"]

\* json.dump with the index of an archive written as a number always
json_dump_none_as_number(cats, archs) ==
    [t |-> "object",
     members |->
        [categories |-> [t |-> "array",
                         items |-> [k \in 1..Len(cats) |-> DumpCategory(cats[k])]],
         archives |-> [t |-> "array",
                       items |-> [k \in 1..Len(archs) |->
                                    DumpArchive([archs[k] EXCEPT !.category_index =
                                                    IF @ = NoneIdx THEN 0 ELSE @])]]]]

\* json.dump({'categories': ..., 'archives': ...}, f)
json_dump(cats, archs) ==
    [t |-> "object",
     members |->
        [categories |-> [t |-> "array",
                         items |-> [k \in 1..Len(cats) |-> DumpCategory(cats[k])]],
         archives |-> [t |-> "array",
                       items |-> [k \in 1..Len(archs) |-> DumpArchive(archs[k])]]]]

\* json.load(f), with saved_data.get('categories', []) and
\* saved_data.get('archives', [])
json_load(doc) ==
    [categories |->
        IF "categories" \in DOMAIN doc.members
        THEN [k \in 1..Len(doc.members.categories.items) |->
                LoadCategory(doc.members.categories.items[k])]
        ELSE <<>>,
     archives |->
        IF "archives" \in DOMAIN doc.members
        THEN [k \in 1..Len(doc.members.archives.items) |->
                LoadArchive(doc.members.archives.items[k])]
        ELSE <<>>]

\* save_data
Snapshot(cats, archs) == [exists |-> TRUE, doc |-> json_dump(cats, archs)]

\* self.current_category_index if self.current_category_index >= 0 else None
SelectedCategory == IF current_category_index >= 0 THEN current_category_index ELSE NoneIdx

\* load_sessions_for_current_archive: the names listed afterwards
LoadSessions(archs, cai, shown) ==
    IF cai >= 0 /\ cai < Len(archs) THEN SessionNames(archs[cai + 1]) ELSE shown

\* refresh_categories_tree: the tree is rebuilt and its second item (the first
\* archive without category, else the first category) is clicked; raised when
\* the tree holds the root item alone although there are archives
refresh_categories_tree(cats, archs, cai, cci, shown) ==
    LET loose == {j \in 1..Len(archs) : archs[j].category_index = NoneIdx}
        first == CHOOSE j \in loose : \A k \in loose : j <= k
    IN  IF archs = <<>>
        THEN [raised |-> FALSE, cai |-> cai, cci |-> cci, shown |-> shown]
        ELSE IF loose # {}
        THEN [raised |-> FALSE, cai |-> first - 1, cci |-> cci,
              shown |-> LoadSessions(archs, first - 1, shown)]
        ELSE IF cats # <<>>
        THEN [raised |-> FALSE, cai |-> cai, cci |-> 0, shown |-> <<>>]
        ELSE [raised |-> TRUE, cai |-> cai, cci |-> cci, shown |-> shown]

\* the end shared by the handlers that append an archive: the tree is
\* refreshed, the new archive selected, its sessions listed, the data saved
Appended(archs) ==
    LET rf == refresh_categories_tree(categories, archs, current_archive_index,
                                      current_category_index, sessions_list)
    IN  /\ archives' = archs
        /\ categories' = categories
        /\ UNCHANGED <<clock, unlinked, delete_errors>>
        /\ current_category_index' = rf.cci
        /\ current_archive_index' = IF rf.raised THEN rf.cai ELSE Len(archs) - 1
        /\ sessions_list' = IF rf.raised THEN rf.shown
                            ELSE LoadSessions(archs, Len(archs) - 1, rf.shown)
        /\ saved' = IF rf.raised THEN saved ELSE Snapshot(categories, archs)

\* the end of a handler that refreshes the tree and leaves the data unsaved
ChangedUnsaved(cats, archs, cai, cci, shown) ==
    LET rf == refresh_categories_tree(cats, archs, cai, cci, shown)
    IN  /\ categories' = cats
        /\ archives' = archs
        /\ current_archive_index' = rf.cai
        /\ current_category_index' = rf.cci
        /\ sessions_list' = rf.shown
        /\ saved' = saved

\* the end shared by the handlers that change the catalog in place
Changed(cats, archs, cai, cci, shown) ==
    LET rf == refresh_categories_tree(cats, archs, cai, cci, shown)
    IN  /\ categories' = cats
        /\ archives' = archs
        /\ current_archive_index' = rf.cai
        /\ current_category_index' = rf.cci
        /\ sessions_list' = rf.shown
        /\ saved' = IF rf.raised THEN saved ELSE Snapshot(cats, archs)

\* sessions[0]['path'].replace('\\' + sessions[0]['name'], '') if sessions else ''
ExtractedPath(sessions) ==
    IF sessions # <<>>
    THEN Replace(sessions[1].path, <<SEP>> \o sessions[1].name, <<>>)
    ELSE <<>>

extraction_finished(sessions, archive_name, archive_path) ==
    LET new_archive == Archive(archive_name, archive_path, ExtractedPath(sessions),
                               sessions, SelectedCategory, FALSE, FALSE)
    IN  Appended(Append(archives, new_archive))

\* the foreground takes the next signal from its event queue: between two
\* handlers, or inside the loop of process_drop while a dialog of process_path
\* (a question, a warning) runs the event loop
Deliver ==
    /\ queue # <<>>
    /\ queue' = Tail(queue)
    /\ LET s == Head(queue).signal
       IN  IF s.sig = "finished"
           THEN extraction_finished(s.sessions, s.name, s.path)
           ELSE UNCHANGED catalog
    /\ UNCHANGED <<worker, runs, disk, requests, pending, probe>>

on_tree_item_clicked_archive(index) ==
    /\ pending = <<>>
    /\ index \in 0..(Len(archives) - 1)
    /\ current_archive_index' = index
    /\ sessions_list' = LoadSessions(archives, index, sessions_list)
    /\ UNCHANGED <<categories, archives, current_category_index, saved, clock, unlinked,
                   delete_errors, worker, runs, queue, disk, requests, pending, probe>>

on_tree_item_clicked_category(index) ==
    /\ pending = <<>>
    /\ index \in 0..(Len(categories) - 1)
    /\ current_category_index' = index
    /\ sessions_list' = <<>>
    /\ UNCHANGED <<categories, archives, current_archive_index, saved, clock, unlinked,
                   delete_errors, worker, runs, queue, disk, requests, pending, probe>>

on_tree_item_clicked_root ==
    /\ pending = <<>>
    /\ sessions_list # <<>>
    /\ sessions_list' = <<>>
    /\ UNCHANGED <<categories, archives, current_archive_index, current_category_index,
                   saved, clock, unlinked, delete_errors, worker, runs, queue, disk,
                   requests, pending, probe>>

\* a check of the name that ignores the case of the letters
HasNameAnyCase(cats, name) ==
    \E k \in 1..Len(cats) : LowerLetter(cats[k].name) = LowerLetter(name)

\* a check of the name against the first category alone
HasNameOfFirst(cats, name) == cats # <<>> /\ cats[1].name = name

HasName(cats, name) == \E k \in 1..Len(cats) : cats[k].name = name

add_category(name) ==
    /\ pending = <<>>
    /\ clock < MaxCategoryOps
    /\ IF name # "" /\ ~HasName(categories, name)
       THEN /\ clock' = clock + 1
            /\ UNCHANGED <<unlinked, delete_errors>>
            /\ Changed(Append(categories, Category(name, clock)), archives,
                       current_archive_index, current_category_index, sessions_list)
       ELSE UNCHANGED catalog
    /\ UNCHANGED <<worker, runs, queue, disk, requests, pending, probe>>

\* a rename that takes the category out and appends it under its new name
RenamedAtEnd(cats, category_index, name) ==
    Append(Pop(cats, category_index + 1),
           [cats[category_index + 1] EXCEPT !.name = name])

\* self.categories[category_index]['name'] = name
Renamed(cats, category_index, name) == [cats EXCEPT ![category_index + 1].name = name]

rename_category(category_index, name) ==
    /\ pending = <<>>
    /\ IF category_index < 0 \/ category_index >= Len(categories)
       THEN UNCHANGED catalog
       ELSE LET old_name == categories[category_index + 1].name
            IN  IF name # "" /\ name # old_name /\ ~HasName(categories, name)
                THEN /\ UNCHANGED <<clock, unlinked, delete_errors>>
                     /\ Changed(Renamed(categories, category_index, name),
                                archives, current_archive_index, current_category_index,
                                sessions_list)
                ELSE UNCHANGED catalog
    /\ UNCHANGED <<worker, runs, queue, disk, requests, pending, probe>>

\* the loop without its elif branch: later indices are left as they are
RelinkedNoShift(archs, category_index) ==
    [j \in 1..Len(archs) |->
        IF archs[j].category_index = category_index
        THEN [archs[j] EXCEPT !.category_index = NoneIdx]
        ELSE archs[j]]

\* the loop with >= in its first test: later categories lose their archives too
RelinkedFrom(archs, category_index) ==
    [j \in 1..Len(archs) |->
        IF archs[j].category_index # NoneIdx /\ archs[j].category_index >= category_index
        THEN [archs[j] EXCEPT !.category_index = NoneIdx]
        ELSE archs[j]]

\* the loop of delete_category over self.archives
Relinked(archs, category_index) ==
    [j \in 1..Len(archs) |->
        IF archs[j].category_index = category_index
        THEN [archs[j] EXCEPT !.category_index = NoneIdx]
        ELSE IF archs[j].category_index # NoneIdx /\ archs[j].category_index > category_index
        THEN [archs[j] EXCEPT !.category_index = @ - 1]
        ELSE archs[j]]

\* the update of self.current_category_index in delete_category
ReselectedCategory(cci, category_index) ==
    IF category_index = cci THEN -1
    ELSE IF cci > category_index THEN cci - 1
    ELSE cci

delete_category(category_index) ==
    /\ pending = <<>>
    /\ IF category_index < 0 \/ category_index >= Len(categories)
       THEN UNCHANGED catalog
       ELSE /\ UNCHANGED <<clock, delete_errors>>
            /\ unlinked' = Cardinality({j \in 1..Len(archives) :
                                            archives[j].category_index = category_index})
            /\ Changed(Pop(categories, category_index + 1),
                       Relinked(archives, category_index),
                       current_archive_index,
                       ReselectedCategory(current_category_index, category_index),
                       sessions_list)
    /\ UNCHANGED <<worker, runs, queue, disk, requests, pending, probe>>

\* a move without the test of the target category
MoveUnchecked(archive_index, category_index) ==
    /\ pending = <<>>
    /\ IF archive_index < 0 \/ archive_index >= Len(archives)
       THEN UNCHANGED catalog
       ELSE /\ UNCHANGED <<clock, unlinked, delete_errors>>
            /\ Changed(categories,
                       [archives EXCEPT ![archive_index + 1].category_index = category_index],
                       current_archive_index, current_category_index, sessions_list)
    /\ UNCHANGED <<worker, runs, queue, disk, requests, pending, probe>>

move_archive_to_category(archive_index, category_index) ==
    /\ pending = <<>>
    /\ IF archive_index < 0 \/ archive_index >= Len(archives)
       THEN UNCHANGED catalog
       ELSE IF category_index # NoneIdx
               /\ (category_index < 0 \/ category_index >= Len(categories))
       THEN UNCHANGED catalog
       ELSE /\ UNCHANGED <<clock, unlinked, delete_errors>>
            /\ Changed(categories,
                       [archives EXCEPT ![archive_index + 1].category_index = category_index],
                       current_archive_index, current_category_index, sessions_list)
    /\ UNCHANGED <<worker, runs, queue, disk, requests, pending, probe>>

\* whether a shutil.rmtree of p succeeds: there is a choice only when p exists
RmChoices(d, p) == IF Exists(d, p) THEN BOOLEAN ELSE {TRUE}

\* delete_selected_archive, the dialog answered "Yes"; when shutil.rmtree
\* raises, the handler shows its error dialog and leaves the rest undone
delete_selected_archive ==
    /\ pending = <<>>
    /\ IF current_archive_index < 0 \/ current_archive_index >= Len(archives)
       THEN UNCHANGED <<catalog, disk>>
       ELSE LET archive == archives[current_archive_index + 1]
                there == Exists(disk, archive.extracted_path)
            IN  \E rm_ok \in IF delete_errors < MaxDeleteErrors
                              THEN RmChoices(disk, archive.extracted_path) ELSE {TRUE} :
                  IF there /\ ~rm_ok
                  THEN /\ delete_errors' = delete_errors + 1
                       /\ UNCHANGED <<categories, archives, current_archive_index,
                                      current_category_index, sessions_list, saved,
                                      clock, unlinked, disk>>
                  ELSE /\ disk' = IF there THEN Rmtree(disk, archive.extracted_path) ELSE disk
                       /\ UNCHANGED <<clock, unlinked, delete_errors>>
                       /\ Changed(categories, Pop(archives, current_archive_index + 1),
                                  -1, current_category_index, <<>>)
    /\ UNCHANGED <<worker, runs, queue, requests, pending, probe>>

\* archive['sessions'].remove(session)
RemoveFirst(sessions, session) ==
    LET hits == {k \in 1..Len(sessions) : sessions[k] = session}
    IN  IF hits = {} THEN sessions
        ELSE Pop(sessions, CHOOSE k \in hits : \A j \in hits : k <= j)

\* next((s for s in archive['sessions'] if s['name'] == session_name), None)
FirstNamed(sessions, session_name) ==
    LET hits == {k \in 1..Len(sessions) : sessions[k].name = session_name}
    IN  IF hits = {} THEN 0 ELSE CHOOSE k \in hits : \A j \in hits : k <= j

\* the loop of delete_selected_sessions over the selected items; an item is
\* [name, rm_ok], rm_ok telling whether shutil.rmtree succeeds for it
RECURSIVE DeleteEach(_, _, _)
DeleteEach(items, sessions, d) ==
    IF items = <<>> THEN [sessions |-> sessions, disk |-> d]
    ELSE LET k == FirstNamed(sessions, Head(items).name)
             there == Exists(d, sessions[k].path)
         IN  IF k = 0 THEN DeleteEach(Tail(items), sessions, d)
             ELSE IF there /\ ~Head(items).rm_ok
             THEN DeleteEach(Tail(items), sessions, d)
             ELSE DeleteEach(Tail(items), RemoveFirst(sessions, sessions[k]),
                             IF there THEN Rmtree(d, sessions[k].path) ELSE d)

\* the selected rows of the list, in the order of the list
RECURSIVE SelectedItems(_, _, _, _)
SelectedItems(shown, selected, failing, k) ==
    IF k > Len(shown) THEN <<>>
    ELSE (IF k \in selected
          THEN <<[name |-> shown[k], rm_ok |-> k \notin failing]>> ELSE <<>>)
         \o SelectedItems(shown, selected, failing, k + 1)

\* delete_selected_sessions, the dialog answered "Yes"; selected: the rows
\* selected in the list
delete_selected_sessions(selected) ==
    /\ pending = <<>>
    /\ selected \subseteq 1..Len(sessions_list)
    /\ IF current_archive_index < 0 \/ selected = {}
          \/ current_archive_index >= Len(archives)
       THEN UNCHANGED <<catalog, disk>>
       ELSE \E failing \in SUBSET selected :
              LET archive == archives[current_archive_index + 1]
                  res == DeleteEach(SelectedItems(sessions_list, selected, failing, 1),
                                    archive.sessions, disk)
                  archs == [archives EXCEPT
                                ![current_archive_index + 1].sessions = res.sessions]
              IN  /\ disk' = res.disk
                  /\ archives' = archs
                  /\ sessions_list' = LoadSessions(archs, current_archive_index,
                                                   sessions_list)
                  /\ saved' = Snapshot(categories, archs)
                  /\ UNCHANGED <<categories, current_archive_index,
                                 current_category_index, clock, unlinked,
                                 delete_errors>>
    /\ UNCHANGED <<worker, runs, queue, requests, pending, probe>>

(***************************************************************************)
(* Ingestion.  The bodies below leave requests and pending to the entry    *)
(* points that call them.                                                  *)
(***************************************************************************)
HasPath(archs, path) == \E k \in 1..Len(archs) : archs[k].path = path

HasSessionPath(archs, path) ==
    \E k \in 1..Len(archs) : \E j \in 1..Len(archs[k].sessions) :
        archs[k].sessions[j].path = path

Rejected == UNCHANGED <<catalog, worker, runs, queue, disk>>

\* temp_dir of process_archive: os.path.join(archive_dir, f"extracted_{archive_name}")
ExtractionDirOf(archive_path) ==
    Join(Dirname(archive_path), <<"extracted_">> \o Basename(archive_path))

\* self.worker = ExtractionWorker(...); self.worker.start()
StartWorker(source_path, temp_dir, is_archive, d) ==
    /\ runs' = Append(runs, ExtractionWorker(source_path, temp_dir, is_archive))
    /\ worker' = Len(runs) + 1
    /\ disk' = d
    /\ UNCHANGED <<catalog, queue>>

process_archive(archive_path) ==
    LET archive_name == Basename(archive_path)
        archive_dir == Dirname(archive_path)
        temp_dir == Join(archive_dir, <<"extracted_">> \o archive_name)
    IN  IF HasPath(archives, archive_path) THEN Rejected
        ELSE \E rm_ok \in RmChoices(disk, temp_dir) :
               LET d1 == IF Exists(disk, temp_dir) /\ rm_ok
                         THEN Rmtree(disk, temp_dir) ELSE disk
               IN  IF ~MakedirsOk(d1, temp_dir)
                   THEN /\ disk' = d1
                        /\ UNCHANGED <<catalog, worker, runs, queue>>
                   ELSE StartWorker(archive_path, temp_dir, TRUE, Makedirs(d1, temp_dir))

process_folder(folder_path) ==
    LET folder_name == Basename(folder_path)
        temp_dir == Join(Dirname(folder_path), <<"extracted_">> \o folder_name)
    IN  IF HasPath(archives, folder_path) THEN Rejected
        ELSE IF ~MakedirsOk(disk, temp_dir) THEN Rejected
        ELSE StartWorker(folder_path, temp_dir, FALSE, Makedirs(disk, temp_dir))

process_single_session(session_path) ==
    LET folder_name == Basename(session_path)
        sessions == <<Session(folder_name, session_path)>>
        new_archive == Archive(<<"Session: ">> \o folder_name, session_path, session_path,
                               sessions, SelectedCategory, TRUE, FALSE)
    IN  IF HasSessionPath(archives, session_path) THEN Rejected
        ELSE /\ Appended(Append(archives, new_archive))
             /\ UNCHANGED <<worker, runs, queue, disk>>

\* for root, dirs, files in os.walk(temp_dir): the first root that is a profile
FirstProfileRoot(d, temp_dir) ==
    SelectSeq(Walk(d, temp_dir),
              LAMBDA e : mgr_analyze_session_folder(d, e.root).is_chrome_profile)

process_single_session_archive(archive_path) ==
    LET archive_name == Basename(archive_path)
        archive_basename == SplitextRoot(archive_name)
        archive_dir == Dirname(archive_path)
        temp_dir == Join(archive_dir, <<"extracted_", "single_">> \o archive_basename)
    IN  IF HasPath(archives, archive_path) THEN Rejected
        ELSE \E rm_ok \in RmChoices(disk, temp_dir), env \in ToolEnvs :
          \E d1 \in {IF Exists(disk, temp_dir) /\ rm_ok THEN Rmtree(disk, temp_dir) ELSE disk} :
          \E x \in {extract_with_7zip(Makedirs(d1, temp_dir), archive_path, temp_dir, env)} :
          \E found \in {FirstProfileRoot(x.disk, temp_dir)} :
          LET session_path == IF found = <<>> THEN temp_dir ELSE Head(found).root
              sessions == <<Session(archive_basename, session_path)>>
              new_archive == Archive(<<"Session from archive: ">> \o archive_basename,
                                     archive_path, temp_dir, sessions, SelectedCategory,
                                     TRUE, TRUE)
              archs == Append(archives, new_archive)
              rf == refresh_categories_tree(categories, archs, current_archive_index,
                                            current_category_index, sessions_list)
          IN  IF ~MakedirsOk(d1, temp_dir)
              THEN /\ disk' = d1
                   /\ UNCHANGED <<catalog, worker, runs, queue>>
              ELSE IF ~x.ok
              THEN /\ disk' = Rmtree(x.disk, temp_dir)
                   /\ UNCHANGED <<catalog, worker, runs, queue>>
              ELSE \E go_on \in IF found = <<>> THEN BOOLEAN ELSE {TRUE} :
                     IF ~go_on
                     THEN /\ disk' = Rmtree(x.disk, temp_dir)
                          /\ UNCHANGED <<catalog, worker, runs, queue>>
                     ELSE /\ Appended(archs)
                          /\ disk' = IF rf.raised THEN Rmtree(x.disk, temp_dir) ELSE x.disk
                          /\ UNCHANGED <<worker, runs, queue>>

\* is_session_name
is_session_name(filename) ==
    LET basename == Basename(filename)
    IN  StartsWith(basename, <<"session-">>) \/ Contains(Lower(basename), <<"whatsapp">>)

\* process_path; reply: the answer to "add it as a single session?"
process_path(path) ==
    IF ~Exists(disk, path) THEN Rejected
    ELSE IF IsDir(disk, path)
    THEN IF /\ is_session_name(path)
            /\ mgr_analyze_session_folder(disk, path).is_chrome_profile
         THEN \E reply \in BOOLEAN :
                IF reply THEN process_single_session(path) ELSE process_folder(path)
         ELSE process_folder(path)
    ELSE IF IsFile(disk, path) /\ HasArchiveExt(path)
    THEN IF is_session_name(path)
         THEN \E reply \in BOOLEAN :
                IF reply THEN process_single_session_archive(path)
                ELSE process_archive(path)
         ELSE process_archive(path)
    ELSE Rejected

(***************************************************************************)
(* Entry points of the user.                                               *)
(***************************************************************************)
select_file_or_folder(selected_path) ==
    /\ pending = <<>>
    /\ requests < MaxRequests
    /\ requests' = requests + 1
    /\ pending' = pending
    /\ probe' = probe
    /\ process_path(selected_path)

\* process_drop: the loop over the dropped paths starts
process_drop(files) ==
    /\ pending = <<>>
    /\ files # <<>>
    /\ requests + Len(files) <= MaxRequests
    /\ requests' = requests + Len(files)
    /\ pending' = files
    /\ probe' = probe
    /\ UNCHANGED <<catalog, worker, runs, queue, disk>>

\* process_drop: one pass of the loop
process_drop_next ==
    /\ pending # <<>>
    /\ pending' = Tail(pending)
    /\ probe' = probe
    /\ requests' = requests
    /\ process_path(Head(pending))

\* add_single_session; reply: the answer to "not a session, add it anyway?"
add_single_session(source_path) ==
    /\ pending = <<>>
    /\ requests < MaxRequests
    /\ requests' = requests + 1
    /\ pending' = pending
    /\ probe' = probe
    /\ IF IsFile(disk, source_path) /\ HasArchiveExt(source_path)
       THEN process_single_session_archive(source_path)
       ELSE IF IsDir(disk, source_path)
       THEN IF ~mgr_analyze_session_folder(disk, source_path).is_chrome_profile
            THEN \E reply \in BOOLEAN :
                   IF reply THEN process_single_session(source_path) ELSE Rejected
            ELSE process_single_session(source_path)
       ELSE Rejected

(***************************************************************************)
(* The initial state: the window after __init__ on a host without a saved  *)
(* catalog, and a working directory with one archive and one folder.       *)
(***************************************************************************)
WorkDir == <<"C:", SEP, "W">>
ARC == <<"C:", ALT, "W", ALT, "A", ".zip">>
FOL == <<"C:", ALT, "W", ALT, "session-", "F">>

UserPaths == {ARC, FOL}

Drops == {<<a, b>> : a \in UserPaths, b \in UserPaths}

\* the names typed into the dialog of add_category, two of them differing in
\* the case of their letter alone
CategoryNames == {"", "x", "X"}

\* a name typed into the dialog of rename_category alone
FreshName == "y"

RenameNames == CategoryNames \union {FreshName}

DiskVariants ==
    {[tool |-> TRUE, arc |-> "nested", fol |-> "sub"],
     [tool |-> TRUE, arc |-> "profile", fol |-> "profile"],
     [tool |-> TRUE, arc |-> "plain", fol |-> "nested"],
     [tool |-> FALSE, arc |-> "nested", fol |-> "nested"]}

InitDisk(v) ==
    Materialise([tool |-> v.tool,
                 locked |-> {},
                 dirs |-> {WorkDir, Norm(FOL)},
                 files |-> [p \in {Norm(ARC)} |-> [size |-> 500, content |-> v.arc]]],
                FOL, v.fol)

\* __init__ and load_data without whatsapp_data.json, on one of the disks
InitWith(disks) ==
    /\ categories = <<>>
    /\ archives = <<>>
    /\ current_archive_index = -1
    /\ current_category_index = -1
    /\ sessions_list = <<>>
    /\ worker = 0
    /\ runs = <<>>
    /\ queue = <<>>
    /\ disk \in disks
    /\ saved = [exists |-> FALSE, doc |-> [t |-> "null"]]
    /\ clock = 0
    /\ unlinked = 0
    /\ delete_errors = 0
    /\ requests = 0
    /\ pending = <<>>
    /\ probe = NoProbe

InitOn(variants) == InitWith({InitDisk(v) : v \in variants})
    /\ probe = NoProbe

Init == InitOn(DiskVariants)

\* the worker threads
Worker == \E r \in 1..Len(runs) : run(r)

\* the user hands over an archive or a folder
Ingest ==
    \/ \E p \in UserPaths : select_file_or_folder(p)
    \/ \E p \in UserPaths : add_single_session(p)

\* the user drops several paths at once
Drop ==
    \/ \E files \in Drops : process_drop(files)
    \/ process_drop_next

\* the user clicks in the tree
Browse ==
    \/ \E index \in 0..(Len(archives) - 1) : on_tree_item_clicked_archive(index)
    \/ \E index \in 0..(Len(categories) - 1) : on_tree_item_clicked_category(index)
    \/ on_tree_item_clicked_root

\* the user clicks an archive of the tree
SelectArchive ==
    \E index \in 0..(Len(archives) - 1) : on_tree_item_clicked_archive(index)

\* the user edits the categories
Organise ==
    \/ \E name \in CategoryNames : add_category(name)
    \/ \E index \in -1..Len(categories), name \in CategoryNames :
          rename_category(index, name)
    \/ \E index \in -1..Len(categories) : delete_category(index)
    \/ \E a \in -1..Len(archives), c \in {NoneIdx} \union (-1..Len(categories)) :
          move_archive_to_category(a, c)

\* the user gives a category a name that no category was added with
Relabel == \E index \in 0..(Len(categories) - 1) : rename_category(index, FreshName)

RemoveArchive == delete_selected_archive

RemoveSessions ==
    \E selected \in SUBSET (1..Len(sessions_list)) : delete_selected_sessions(selected)

Next ==
    \/ Worker
    \/ Deliver
    \/ Ingest
    \/ Drop
    \/ Browse
    \/ Organise
    \/ RemoveArchive
    \/ RemoveSessions

Spec == Init /\ [][Next]_vars

(***************************************************************************)
(* The catalog and its categories, with ingestions of root profiles.       *)
(***************************************************************************)
NextCatalog ==
    \/ Worker
    \/ Deliver
    \/ Ingest
    \/ Browse
    \/ Organise
    \/ RemoveArchive

SpecCatalog == InitOn({[tool |-> TRUE, arc |-> "profile", fol |-> "profile"]}) /\ [][NextCatalog]_vars

(***************************************************************************)
(* The ingestions and the worker threads, on every disk.                   *)
(***************************************************************************)
NextPipeline ==
    \/ Worker
    \/ Deliver
    \/ Ingest
    \/ Drop

SpecPipeline == Init /\ [][NextPipeline]_vars

(***************************************************************************)
(* The classifier called directly, on every disk built from the entries    *)
(* its rules look at.                                                      *)
(***************************************************************************)
ClassifyDir == <<"C:", SEP, "W", SEP, "G">>

\* kind: what the path ClassifyDir is; ds, fs: the entries below it
ClassifierDisks ==
    LET dirs_below ==
            {Default, Default \o <<SEP>> \o Default, Default \o <<SEP, "Local Storage">>,
             <<"Local Storage">>, <<"Local Storage", SEP, "leveldb">>}
        files_below == {Cookies, Default \o <<SEP>> \o Cookies}
        below(rel) == ClassifyDir \o <<SEP>> \o rel
        made(kind, ds, fs) ==
            LET held == {below(f) : f \in fs}
                dirs == {below(d) : d \in ds} \union UNION {Ancestors(f) : f \in held}
                closed == dirs \union UNION {Ancestors(d) : d \in dirs}
            IN  IF kind = "absent"
                THEN [tool |-> TRUE, locked |-> {}, dirs |-> {WorkDir}, files |-> <<>>]
                ELSE IF kind = "file"
                THEN [tool |-> TRUE, locked |-> {}, dirs |-> {WorkDir},
                      files |-> [f \in {ClassifyDir} |-> [size |-> 500, content |-> None]]]
                ELSE [tool |-> TRUE,
                      locked |-> IF kind = "locked" THEN {ClassifyDir} ELSE {},
                      dirs |-> {WorkDir, ClassifyDir} \union closed,
                      files |-> [f \in held |-> [size |-> 500, content |-> None]]]
    IN  {made(kind, ds, fs) : kind \in {"dir", "locked", "file", "absent"},
                              ds \in SUBSET dirs_below,
                              fs \in SUBSET files_below}

ClassifiedPaths ==
    {ClassifyDir, Join(ClassifyDir, Default), Join(ClassifyDir, Cookies),
     Join(Join(ClassifyDir, Default), Default)}

\* analyze_session_folder(folder_path) of the worker or of the main window
Classify(owner, folder_path) ==
    /\ probe' = [op |-> "analyze_session_folder", owner |-> owner, path |-> folder_path,
                 result |-> IF owner = "worker"
                            THEN analyze_session_folder(disk, folder_path)
                            ELSE mgr_analyze_session_folder(disk, folder_path)]
    /\ UNCHANGED <<catalog, worker, runs, queue, disk, requests, pending>>

NextClassify ==
    \E owner \in {"worker", "manager"}, folder_path \in ClassifiedPaths :
        Classify(owner, folder_path)

SpecClassify == InitWith(ClassifierDisks) /\ [][NextClassify]_vars

(***************************************************************************)
(* The catalog over restarts of the program: __init__ with load_data,      *)
(* while no run is under way and no signal waits.                          *)
(***************************************************************************)
load_data ==
    LET saved_data == json_load(saved.doc)
        rf == refresh_categories_tree(saved_data.categories, saved_data.archives,
                                      -1, -1, <<>>)
    IN  IF saved.exists
        THEN /\ categories' = saved_data.categories
             /\ archives' = saved_data.archives
             /\ current_archive_index' = rf.cai
             /\ current_category_index' = rf.cci
             /\ sessions_list' = rf.shown
        ELSE /\ categories' = <<>>
             /\ archives' = <<>>
             /\ current_archive_index' = -1
             /\ current_category_index' = -1
             /\ sessions_list' = <<>>

Restart ==
    /\ pending = <<>>
    /\ queue = <<>>
    /\ \A r \in 1..Len(runs) : runs[r].pc = "done"
    /\ worker' = 0
    /\ load_data
    /\ UNCHANGED <<saved, clock, unlinked, delete_errors, runs, queue, disk, requests,
                   pending, probe>>

NextPersist ==
    \/ Worker
    \/ Deliver
    \/ Ingest
    \/ Organise
    \/ Restart

SpecPersist ==
    InitOn({[tool |-> TRUE, arc |-> "profile", fol |-> "profile"]}) /\ [][NextPersist]_vars

(***************************************************************************)
(* extract_with_7zip called directly: on an archive that is missing, too   *)
(* small, empty or filled, with and without the tool, into an output       *)
(* directory that is missing, empty, filled or a file.                     *)
(***************************************************************************)
OutDir == <<"C:", SEP, "W", SEP, "O">>

ToolDisks ==
    LET made(tool, arc, out) ==
            [tool |-> tool,
             locked |-> {},
             dirs |-> {WorkDir} \union (IF out \in {"empty", "filled"} THEN {OutDir} ELSE {}),
             files |->
                [f \in (IF arc = "absent" THEN {} ELSE {Norm(ARC)})
                        \union (IF out = "filled"
                                THEN {Join(OutDir, <<"1", ".txt">>)} ELSE {})
                        \union (IF out = "file" THEN {OutDir} ELSE {}) |->
                    IF f = Norm(ARC)
                    THEN [size |-> IF arc = "small" THEN 50 ELSE 500,
                          content |-> IF arc = "small" THEN "plain" ELSE arc]
                    ELSE [size |-> 500, content |-> None]]]
    IN  {made(tool, arc, out) : tool \in BOOLEAN,
                                arc \in {"absent", "small", "empty", "plain", "profile"},
                                out \in {"absent", "empty", "filled", "file"}}

Extract(env) ==
    LET x == extract_with_7zip(disk, ARC, OutDir, env)
    IN  /\ probe' = [op |-> "extract_with_7zip", env |-> env, before |-> disk,
                     ok |-> x.ok, err |-> x.err, cmds |-> x.cmds]
        /\ disk' = x.disk
        /\ UNCHANGED <<catalog, worker, runs, queue, requests, pending>>

NextTool == \E env \in Envs : Extract(env)

SpecTool == InitWith(ToolDisks) /\ [][NextTool]_vars

(***************************************************************************)
(* The pipeline and the classifier on disks with a directory that cannot   *)
(* be read: the folder itself, or one of the two profiles inside it.       *)
(***************************************************************************)
UnreadableDisks ==
    {[InitDisk([tool |-> TRUE, arc |-> "plain", fol |-> "profile"])
         EXCEPT !.locked = {Norm(FOL)}],
     [InitDisk([tool |-> TRUE, arc |-> "plain", fol |-> "twin"])
         EXCEPT !.locked = {Join(Norm(FOL), <<"P">>)}]}

UnreadablePaths ==
    {FOL, Join(FOL, <<"P">>), Join(FOL, <<"Q">>), ARC, Join(WorkDir, <<"Z">>)}

Select == \E selected_path \in UserPaths : select_file_or_folder(selected_path)

NextUnreadable ==
    \/ Worker
    \/ Deliver
    \/ Select
    \/ \E folder_path \in UnreadablePaths : Classify("worker", folder_path)
    \/ \E folder_path \in UnreadablePaths : Classify("manager", folder_path)

SpecUnreadable == InitWith(UnreadableDisks) /\ [][NextUnreadable]_vars

(***************************************************************************)
(* The unpacking of the archives found inside the input: one whose profile *)
(* lies two levels down, two with the same base name, and one next to a    *)
(* profile directory.                                                      *)
(***************************************************************************)
NextNested ==
    \/ Worker
    \/ Deliver
    \/ Ingest

SpecNested ==
    InitOn({[tool |-> TRUE, arc |-> "stack", fol |-> "clash"],
            [tool |-> TRUE, arc |-> "clash", fol |-> "mixed"],
            [tool |-> TRUE, arc |-> "mixed", fol |-> "stack"]}) /\ [][NextNested]_vars

(***************************************************************************)
(* The searches of the pipeline, on disks whose profiles lie four and five *)
(* levels below the input or are missing.                                  *)
(***************************************************************************)
NextSearch ==
    \/ Worker
    \/ Deliver
    \/ Ingest

SpecSearch ==
    InitOn({[tool |-> TRUE, arc |-> "plain", fol |-> "deep"],
            [tool |-> TRUE, arc |-> "deep", fol |-> "plain"]}) /\ [][NextSearch]_vars

(***************************************************************************)
(* The operations on categories and the moves of archives, with ingestions *)
(* of root profiles.                                                       *)
(***************************************************************************)
NextOrganise ==
    \/ Worker
    \/ Deliver
    \/ Ingest
    \/ Organise
    \/ Relabel

SpecOrganise ==
    InitOn({[tool |-> TRUE, arc |-> "profile", fol |-> "profile"]}) /\ [][NextOrganise]_vars

(***************************************************************************)
(* The ingestions and the deletions of archives and of sessions, on a disk *)
(* with an archive of one nested archive and a folder of two profiles.     *)
(***************************************************************************)
NextRemoval ==
    \/ Worker
    \/ Deliver
    \/ Ingest
    \/ SelectArchive
    \/ on_tree_item_clicked_root
    \/ RemoveArchive
    \/ RemoveSessions

SpecRemoval ==
    InitOn({[tool |-> TRUE, arc |-> "wrapped", fol |-> "twin"]}) /\ [][NextRemoval]_vars

(***************************************************************************)
(* Properties of the catalog.                                              *)
(***************************************************************************)

\* C2: the category_index of every archive is None or the index of a
\* category that exists, in every reachable state, whatever the interleaving
\* of add, rename and delete of categories, moves and deletions of archives
\* and commits of the pipeline.
CategoryIndexValid ==
    \A j \in 1..Len(archives) :
        \/ archives[j].category_index = NoneIdx
        \/ archives[j].category_index \in 0..(Len(categories) - 1)

\* an archive refers to the category created second, which a deletion of the
\* category created first has moved to index 0
CategoryIndexShifted ==
    /\ Len(categories) = 1
    /\ categories[1].created_at = 1
    /\ \E j \in 1..Len(archives) : archives[j].category_index = 0

\* C8: deleting a category that N archives refer to leaves exactly those N
\* archives (and those that had none before) without category, removes
\* exactly that one category, and deletes no archive, no session and no file.
DeleteCategoryUnlinksOnly ==
    [][\A c \in 0..(Len(categories) - 1) :
          delete_category(c) =>
            /\ categories' = Pop(categories, c + 1)
            /\ Len(archives') = Len(archives)
            /\ \A j \in 1..Len(archives) :
                 /\ archives'[j].path = archives[j].path
                 /\ archives'[j].sessions = archives[j].sessions
                 /\ (archives'[j].category_index = NoneIdx)
                       <=> (archives[j].category_index \in {NoneIdx, c})
            /\ disk' = disk]_vars

\* a category with two archives has been deleted, and both are still there
TwoArchivesUnlinked ==
    /\ unlinked = 2
    /\ Len(archives) = 2
    /\ \A j \in 1..2 : archives[j].category_index = NoneIdx /\ archives[j].sessions # <<>>

\* C9: no two categories have the same name, after any sequence of add,
\* rename and delete of categories.
CategoryNamesDistinct ==
    \A i, j \in 1..Len(categories) : i # j => categories[i].name # categories[j].name

\* two categories exist
TwoCategories == Len(categories) = 2 /\ clock = 2

(***************************************************************************)
(* Properties of the ingestions and of the runs.                           *)
(***************************************************************************)

\* C1: no two archives of the catalog have the same source path, whatever
\* ingestions are made, also while an earlier run is still in flight.
NoTwoArchivesSharePath ==
    \A i, j \in 1..Len(archives) : i # j => archives[i].path # archives[j].path

\* the runs that have not reached a terminal state
ActiveRuns == {r \in 1..Len(runs) : runs[r].pc # "done"}

\* C3: at most one run of the pipeline is active at any time.
AtMostOneActiveRun == Cardinality(ActiveRuns) <= 1

Terminal(g) == g.sig \in {"finished", "error"}

\* C4: every run emits at most one terminal notification, finished or
\* error, and nothing after it: a terminal notification is the last one.
TerminalIsLast ==
    \A r \in 1..Len(runs) : \A k \in 1..Len(runs[r].emitted) :
        Terminal(runs[r].emitted[k]) => k = Len(runs[r].emitted)

\* one run has ended in finished and another in error, each after progress
RunsEnded ==
    \E r, q \in 1..Len(runs) :
        /\ runs[r].pc = "done" /\ runs[q].pc = "done"
        /\ Len(runs[r].emitted) > 3 /\ Len(runs[q].emitted) > 1
        /\ runs[r].emitted[Len(runs[r].emitted)].sig = "finished"
        /\ runs[q].emitted[Len(runs[q].emitted)].sig = "error"

\* the progress values of run r, in the order of emission
ProgressValues(r) ==
    LET p == SelectSeq(runs[r].emitted, LAMBDA g : g.sig = "progress")
    IN  [k \in 1..Len(p) |-> p[k].value]

\* C5, as the claim has it: within one run every progress value is greater
\* than the one before it.
ProgressStrictlyIncreasing ==
    \A r \in 1..Len(runs) :
        \A k \in 2..Len(ProgressValues(r)) :
            ProgressValues(r)[k - 1] < ProgressValues(r)[k]

\* C5, amended: within one run no progress value is smaller than the one
\* before it; a value may be repeated.
ProgressNonDecreasing ==
    \A r \in 1..Len(runs) :
        \A k \in 2..Len(ProgressValues(r)) :
            ProgressValues(r)[k - 1] <= ProgressValues(r)[k]

\* a run over three nested archives has ended with all of them unpacked
ThreeCandidatesReported ==
    \E r \in 1..Len(runs) :
        /\ runs[r].pc = "done"
        /\ Len(runs[r].session_archives) = 3
        /\ Len(runs[r].sessions) = 3
        /\ Len(ProgressValues(r)) = 7

\* C6: every finished notification carries at least one session, every
\* archive has at least one session when it is committed, and an archive of
\* a single-session route is committed with exactly one.
CommittedWithSessions ==
    [][/\ \A r \in 1..Len(runs') : \A k \in 1..Len(runs'[r].emitted) :
            runs'[r].emitted[k].sig = "finished" => runs'[r].emitted[k].sessions # <<>>
       /\ Len(archives') > Len(archives) =>
            LET a == archives'[Len(archives')]
            IN  /\ a.sessions # <<>>
                /\ a.is_single_session => Len(a.sessions) = 1]_vars

\* the catalog holds a single-session archive and a result of several sessions
SingleAndSeveral ==
    \E i, j \in 1..Len(archives) :
        /\ archives[i].is_single_session /\ Len(archives[i].sessions) = 1
        /\ ~archives[j].is_single_session /\ Len(archives[j].sessions) >= 2

\* C7: no archive is added whose sessions include a path that a session of
\* the catalog already has, on the single-session routes and on the commits
\* of the pipeline alike.
NoDuplicateSessionAdded ==
    [][Len(archives') > Len(archives) =>
         LET a == archives'[Len(archives')]
         IN  \A k \in 1..Len(a.sessions) : ~HasSessionPath(archives, a.sessions[k].path)]_vars

\* the candidates of the sequence that have failed, or have not
Outcome(w, candidates, failed) ==
    SelectSeq(candidates,
              LAMBDA c : (\E k \in 1..Len(w.failed_archives) :
                             w.failed_archives[k].path = c) <=> failed)

\* C10: the candidates are attempted in the order of their discovery, a
\* failure never ends the loop, and a run over N candidates of which k failed
\* and N - k >= 1 did not ends in finished with the N - k sessions and the k
\* failures, both in the order of discovery.
PartialFailureTolerated ==
    \A r \in 1..Len(runs) :
        LET w == runs[r]
            N == Len(w.session_archives)
            attempted == SubSeq(w.session_archives, 1, w.i)
            succeeded == Outcome(w, attempted, FALSE)
        IN  N > 0 =>
              /\ [k \in 1..Len(w.failed_archives) |-> w.failed_archives[k].path]
                    = Outcome(w, attempted, TRUE)
              /\ [k \in 1..Len(w.sessions) |-> w.sessions[k].name]
                    = [k \in 1..Len(succeeded) |-> SplitextRoot(Basename(succeeded[k]))]
              /\ w.pc \in {"finalize", "done"} => w.i = N
              /\ (w.pc = "done" /\ w.sessions # <<>>) =>
                    /\ w.emitted[Len(w.emitted)].sig = "finished"
                    /\ w.emitted[Len(w.emitted)].sessions = w.sessions

\* a run over three candidates has ended in finished with two sessions and
\* one failure
TwoOfThree ==
    \E r \in 1..Len(runs) :
        /\ runs[r].pc = "done"
        /\ Len(runs[r].session_archives) = 3
        /\ Len(runs[r].sessions) = 2
        /\ Len(runs[r].failed_archives) = 1
        /\ runs[r].emitted[Len(runs[r].emitted)].sig = "finished"

\* C11: a run that ends in finished although candidates have failed delivers
\* the recorded failures with its finished signal.
FailuresDeliveredWithResult ==
    \A r \in 1..Len(runs) :
        \A k \in 1..Len(runs[r].emitted) :
            runs[r].emitted[k].sig = "finished" =>
                runs[r].emitted[k].msg.failed = runs[r].failed_archives

\* C12: when the removal of the extracted tree fails, delete_selected_archive
\* still removes the selected archive with its sessions from the catalog and
\* saves the catalog.
ArchiveRemovedDespiteFailure ==
    [][delete_errors' > delete_errors =>
         /\ archives' = Pop(archives, current_archive_index + 1)
         /\ saved' = Snapshot(categories', archives')]_vars

(***************************************************************************)
(* Properties of the deletions.                                            *)
(***************************************************************************)

\* C13: when delete_selected_archive has removed an archive that the pipeline
\* committed from an archive file, the extraction directory of that ingestion
\* (and with it every session directory below it) is no longer on the disk.
ExtractionDirReleased ==
    [][Len(archives') < Len(archives) =>
         LET archive == archives[current_archive_index + 1]
         IN  (~archive.is_single_session /\ HasArchiveExt(archive.path)) =>
                ~Exists(disk', ExtractionDirOf(archive.path))]_vars

(***************************************************************************)
(* Properties of the commits.                                              *)
(***************************************************************************)

\* C14: no step of a worker changes the categories, the archives (with their
\* sessions) or the saved catalog; an archive of the pipeline is appended
\* only by the delivery of the finished signal of a run that has ended, and
\* it carries the sessions and the source path of that signal.
CatalogChangedInForegroundOnly ==
    [][/\ Worker => UNCHANGED <<categories, archives, saved>>
       /\ (Len(archives') > Len(archives)
              /\ ~archives'[Len(archives')].is_single_session) =>
            /\ queue # <<>>
            /\ queue' = Tail(queue)
            /\ Head(queue).signal.sig = "finished"
            /\ runs[Head(queue).run].pc = "done"
            /\ runs' = runs
            /\ archives'[Len(archives')].sessions = Head(queue).signal.sessions
            /\ archives'[Len(archives')].path = Head(queue).signal.path]_vars

\* the result of one run is in the catalog while another run is at work
CommittedWhileAnotherRuns ==
    \E r1, r2 \in 1..Len(runs) :
        /\ runs[r1].pc = "done"
        /\ runs[r2].pc \in {"rootcheck", "archive_search", "profile_search",
                            "extract", "finalize"}
        /\ \E k \in 1..Len(archives) :
              /\ ~archives[k].is_single_session
              /\ archives[k].sessions = runs[r1].sessions
              /\ archives[k].path = runs[r1].source_path

\* C15: a request to ingest a path that is the source path of an archive of
\* the catalog is rejected on every route: it starts no run, adds no archive
\* and leaves the categories and the archives as they are.
DuplicatePathRejected ==
    [][\A p \in UserPaths :
          (/\ HasPath(archives, p)
           /\ \/ select_file_or_folder(p)
              \/ add_single_session(p)
              \/ (pending # <<>> /\ Head(pending) = p /\ process_drop_next))
          => UNCHANGED <<categories, archives, runs>>]_vars

(***************************************************************************)
(* Properties of the operations on categories and on archives.             *)
(***************************************************************************)

\* C16: rename_category changes at most the name of its category: the
\* number, the order and the creation times of the categories, every other
\* category and every archive stay as they are, and the name changes to the
\* one given when that is no name of the catalog; a rename to the current
\* name or to the name of another category changes nothing.
RenameChangesNameOnly ==
    [][\A c \in 0..(Len(categories) - 1), name \in RenameNames :
          rename_category(c, name) =>
            /\ archives' = archives
            /\ Len(categories') = Len(categories)
            /\ \A k \in 1..Len(categories) :
                  /\ categories'[k].created_at = categories[k].created_at
                  /\ k # c + 1 => categories'[k] = categories[k]
            /\ categories'[c + 1].name \in {name, categories[c + 1].name}
            /\ (name # "" /\ \A k \in 1..Len(categories) : categories[k].name # name)
                  => categories'[c + 1].name = name
            /\ (\E k \in 1..Len(categories) : categories[k].name = name)
                  => /\ categories' = categories
                     /\ saved' = saved]_vars

\* the first of two categories carries a name that only a rename gives, and
\* holds an archive
FirstOfTwoRenamed ==
    /\ Len(categories) = 2
    /\ categories[1].name = "y"
    /\ categories[1].created_at < categories[2].created_at
    /\ json_load(saved.doc).categories = categories
    /\ \E j \in 1..Len(archives) : archives[j].category_index = 0

\* C17: add_category succeeds exactly when the name is not empty and no
\* category has exactly that name, the case of the letters counting: then
\* the category is appended after all the others and saved; otherwise the
\* categories, the archives and the saved catalog stay as they are.
AddCategoryExactlyWhenNew ==
    /\ [](\A name \in CategoryNames :
             (/\ pending = <<>>
              /\ clock < MaxCategoryOps
              /\ name # ""
              /\ \A k \in 1..Len(categories) : categories[k].name # name)
             => ENABLED (/\ add_category(name)
                         /\ categories' = Append(categories, Category(name, clock))))
    /\ [][\A name \in CategoryNames :
             add_category(name) =>
               /\ archives' = archives
               /\ \/ /\ categories' = categories
                     /\ saved' = saved
                  \/ /\ name # ""
                     /\ \A k \in 1..Len(categories) : categories[k].name # name
                     /\ categories' = Append(categories, Category(name, clock))
                     /\ json_load(saved'.doc).categories = categories']_vars

\* two categories whose names differ in the case of the letter alone
NamesDifferingInCase ==
    /\ Len(categories) = 2
    /\ categories[1].name = "x"
    /\ categories[2].name = "X"
    /\ json_load(saved.doc).categories = categories

\* C18: move_archive_to_category with an archive index or a target index
\* that does not exist leaves the categories and the archives as they are;
\* with an archive that exists and a target that exists or is None it sets
\* the category_index of that archive and changes nothing else of them.
MoveChangesReferenceOnly ==
    /\ [](\A a \in 0..(Len(archives) - 1),
             c \in {NoneIdx} \union (0..(Len(categories) - 1)) :
             (pending = <<>> /\ archives[a + 1].category_index # c)
             => ENABLED (/\ move_archive_to_category(a, c)
                         /\ archives'[a + 1].category_index = c))
    /\ [][\A a \in -1..Len(archives), c \in {NoneIdx} \union (-1..Len(categories)) :
             move_archive_to_category(a, c) =>
               /\ categories' = categories
               /\ IF /\ a \in 0..(Len(archives) - 1)
                     /\ c \in {NoneIdx} \union (0..(Len(categories) - 1))
                  THEN archives' = [archives EXCEPT ![a + 1].category_index = c]
                  ELSE archives' = archives /\ saved' = saved]_vars

\* one archive has been moved into the second category, the other has none
MovedToSecondCategory ==
    /\ Len(categories) = 2
    /\ Len(archives) = 2
    /\ \E j, k \in 1..2 :
          /\ archives[j].category_index = 1
          /\ archives[k].category_index = NoneIdx
    /\ json_load(saved.doc).archives = archives

\* C19: delete_selected_sessions, for rows selected in the list of the
\* sessions of the selected archive, removes none but the sessions of those
\* rows and keeps the archive, with an empty list when all its sessions went;
\* the other archives and the categories stay as they are.
DeleteSessionsRemovesSelectedOnly ==
    [][\A selected \in SUBSET (1..Len(sessions_list)) :
          (/\ current_archive_index \in 0..(Len(archives) - 1)
           /\ sessions_list = SessionNames(archives[current_archive_index + 1])
           /\ delete_selected_sessions(selected))
          => LET archive == archives[current_archive_index + 1]
                 after == archives'[current_archive_index + 1]
             IN  /\ categories' = categories
                 /\ Len(archives') = Len(archives)
                 /\ \A j \in 1..Len(archives) :
                       j # current_archive_index + 1 => archives'[j] = archives[j]
                 /\ after = [archive EXCEPT !.sessions = after.sessions]
                 /\ \A k \in 1..Len(archive.sessions) :
                       k \notin selected =>
                          \E m \in 1..Len(after.sessions) :
                             after.sessions[m] = archive.sessions[k]]_vars

\* C20: in every reachable state the path of every session of every archive
\* of the catalog is a directory of the disk.
SessionPathsExist ==
    \A j \in 1..Len(archives) :
        \A k \in 1..Len(archives[j].sessions) :
            IsDir(disk, archives[j].sessions[k].path)

(***************************************************************************)
(* Properties of the extraction directories.                               *)
(***************************************************************************)

\* what the disk holds in and below directory p
TreeBelow(d, p) ==
    [dirs |-> {q \in d.dirs : Under(q, Norm(p))},
     files |-> {f \in DOMAIN d.files : Under(f, Norm(p))}]

\* C21: while a run has not ended, no step but its own changes what its
\* extraction directory holds: no other run unpacks into it and no handler
\* of the foreground removes or recreates it.
ExtractionDirExclusive ==
    [][\A r \in 1..Len(runs) :
          (runs[r].pc # "done" /\ runs'[r] = runs[r]) =>
             TreeBelow(disk', runs[r].temp_dir) = TreeBelow(disk, runs[r].temp_dir)]_vars

(***************************************************************************)
(* Properties of the searches.                                             *)
(***************************************************************************)

\* the number of levels that directory p lies below directory root
LevelsBelow(p, root) == Count(SubSeq(Norm(p), Len(root) + 1, Len(p)), SEP)

\* C30: a directory more than three levels below the working root is never
\* a session of a result of the search for profiles in the sub-folders.
SessionsWithinDepth ==
    \A r \in 1..Len(runs) :
        (runs[r].pc = "done" /\ runs[r].session_archives = <<>>) =>
            \A k \in 1..Len(runs[r].sessions) :
                LevelsBelow(runs[r].sessions[k].path, runs[r].source_dir) <= MaxDepth

\* the folder holds no file with the ending of an archive and no directory
\* one to three levels below it that is shaped like a profile
NothingToIngest(d, folder) ==
    /\ IsDir(d, folder)
    /\ \A f \in DOMAIN d.files : Under(f, Norm(folder)) => ~HasArchiveExt(f)
    /\ \A q \in d.dirs :
          (Under(q, Norm(folder)) /\ q # Norm(folder)
              /\ LevelsBelow(q, Norm(folder)) <= MaxDepth) =>
                ~analyze_session_folder(d, q).is_chrome_profile

\* C22: the result of ingesting a folder without archives and without profile
\* directories within three levels is the error that nothing was found, and
\* its delivery leaves categories and archives as they were.
EmptyFolderFails ==
    [][(/\ queue # <<>>
        /\ queue' = Tail(queue)
        /\ ~runs[Head(queue).run].is_archive
        /\ NothingToIngest(disk, runs[Head(queue).run].source_path)) =>
           /\ Head(queue).signal = Error("NoProfileFound", <<>>)
           /\ categories' = categories
           /\ archives' = archives]_vars

\* C24: when the working root is classified as a profile, the step ends the
\* run with the one session named after the root and located at the root,
\* nothing is searched or unpacked, and the run takes no step afterwards.
RootCheckShortCircuits ==
    [][\A r \in 1..Len(runs) :
          /\ (runs[r].pc = "rootcheck" /\ runs'[r] # runs[r]
                /\ analyze_session_folder(disk, runs[r].source_dir).is_chrome_profile) =>
                LET sessions == <<Session(Basename(runs[r].source_dir), runs[r].source_dir)>>
                IN  /\ runs'[r].pc = "done"
                    /\ runs'[r].sessions = sessions
                    /\ runs'[r].session_archives = <<>>
                    /\ runs'[r].failed_archives = <<>>
                    /\ runs'[r].emitted = runs[r].emitted \o
                          <<Progress(100),
                            Finished(sessions, Basename(runs[r].source_path),
                                     runs[r].source_path)>>
                    /\ disk' = disk
          /\ runs[r].pc = "done" => runs'[r] = runs[r]]_vars

RootProfileIngested ==
    \E r \in 1..Len(runs) :
        /\ runs[r].pc = "done"
        /\ runs[r].is_archive
        /\ runs[r].sessions = <<Session(Basename(runs[r].temp_dir), runs[r].temp_dir)>>
        /\ runs[r].emitted[Len(runs[r].emitted)].sig = "finished"
        /\ Len(runs[r].emitted) = 4

(***************************************************************************)
(* Properties of the classifier.                                           *)
(***************************************************************************)

\* the directory is readable and rule 1 does not apply to it
PastRuleOne(d, p) ==
    /\ IsDir(d, p)
    /\ Readable(d, p)
    /\ ~(Basename(p) = Default /\ profile_files_present(d, p) # <<>>)

\* C25: a directory with a subdirectory Default that holds no marker file is
\* no profile and has_default_folder is set, whatever else the directory holds.
EmptyDefaultIsNoProfile ==
    (/\ probe.op = "analyze_session_folder"
     /\ PastRuleOne(disk, probe.path)
     /\ IsDir(disk, Join(probe.path, Default))
     /\ profile_files_present(disk, Join(probe.path, Default)) = <<>>) =>
        /\ ~probe.result.is_chrome_profile
        /\ probe.result.has_default_folder

\* C26: a readable directory named Default that holds a marker file is a
\* profile with has_default_folder set and its parent as default_path,
\* whatever Default or Local Storage directory it holds itself.
RuleOneWins ==
    (/\ probe.op = "analyze_session_folder"
     /\ IsDir(disk, probe.path)
     /\ Readable(disk, probe.path)
     /\ Basename(probe.path) = Default
     /\ profile_files_present(disk, probe.path) # <<>>) =>
        probe.result = [is_chrome_profile |-> TRUE, has_default_folder |-> TRUE,
                        default_path |-> Dirname(probe.path)]

DefaultWithDefaultInside ==
    /\ probe.op = "analyze_session_folder"
    /\ probe.path = Join(ClassifyDir, Default)
    /\ IsFile(disk, Join(probe.path, Cookies))
    /\ IsDir(disk, Join(probe.path, Default))
    /\ IsDir(disk, Join(probe.path, <<"Local Storage">>))
    /\ probe.result.is_chrome_profile

\* the path is missing, is no directory, or cannot be read
Unclassifiable(d, p) == ~Exists(d, p) \/ ~IsDir(d, p) \/ ~Readable(d, p)

\* C27: the classifier answers "no profile, no Default folder, no root" for a
\* path that is missing, is no directory or cannot be read, and a run that
\* classifies such a path goes on: the check of the root passes to the search
\* for archives without a signal, and the search through the sub-folders
\* skips what it cannot read and still delivers the profiles it can read.
ClassificationNeverFails ==
    [][/\ (probe' # probe /\ Unclassifiable(disk, probe'.path)) =>
             probe'.result = NotAProfile
       /\ \A r \in 1..Len(runs) :
             /\ (runs[r].pc = "rootcheck" /\ runs'[r] # runs[r]
                   /\ Unclassifiable(disk, runs[r].source_dir)) =>
                   /\ runs'[r].pc = "archive_search"
                   /\ runs'[r].emitted = runs[r].emitted
             /\ (runs[r].pc = "profile_search" /\ runs'[r] # runs[r]) =>
                   /\ \A k \in 1..Len(runs'[r].sessions) :
                         ~Unclassifiable(disk, runs'[r].sessions[k].path)
                   /\ \A q \in disk.dirs :
                         (/\ Under(q, Norm(runs[r].source_dir))
                          /\ Len(q) = Len(runs[r].source_dir) + 2
                          /\ Readable(disk, runs[r].source_dir)
                          /\ analyze_session_folder(disk, q).is_chrome_profile) =>
                            /\ runs'[r].emitted[Len(runs'[r].emitted)].sig = "finished"
                            /\ \E k \in 1..Len(runs'[r].sessions) :
                                  Norm(runs'[r].sessions[k].path) = q]_vars

UnreadableRootPassed ==
    \E r \in 1..Len(runs) :
        /\ runs[r].pc = "done"
        /\ ~runs[r].is_archive
        /\ ~Readable(disk, runs[r].source_dir)
        /\ probe.op = "analyze_session_folder"
        /\ probe.path = runs[r].source_dir
        /\ probe.result = NotAProfile

(***************************************************************************)
(* Properties of the archive tool.                                         *)
(***************************************************************************)

\* C28: extract_with_7zip returns only if the extract command has exited
\* with 0 and the output directory exists and holds an entry afterwards; when
\* the command exits with 0 and the directory is empty, the function raises.
SuccessMeansOutput ==
    probe.op = "extract_with_7zip" =>
        /\ probe.ok =>
              /\ probe.cmds # <<>>
              /\ probe.cmds[Len(probe.cmds)] = [cmd |-> "x", success |-> TRUE]
              /\ IsDir(disk, OutDir)
              /\ Listdir(disk, OutDir) # {}
        /\ (/\ probe.cmds # <<>>
            /\ probe.cmds[Len(probe.cmds)] = [cmd |-> "x", success |-> TRUE]
            /\ Listdir(disk, OutDir) = {}) =>
              (~probe.ok /\ probe.err = "ArchiveEmptyOrCorrupt")

EmptyExtractionRaised ==
    /\ probe.op = "extract_with_7zip"
    /\ probe.env.exit
    /\ probe.cmds # <<>>
    /\ IsDir(disk, OutDir)
    /\ Listdir(disk, OutDir) = {}
    /\ ~probe.ok

\* the archive passes the checks made before the tool is used, the tool is
\* found and the output directory can be made
Preflight(d) ==
    /\ IsFile(d, ARC)
    /\ GetSize(d, ARC) >= MinArchiveSize
    /\ d.tool
    /\ MakedirsOk(d, OutDir)

\* C29: when the checks before the tool pass and the tool is found, the
\* extract command runs after the self-test whatever the test says, and what
\* the function answers and leaves on the disk is the same for a passed and
\* for a failed test.
TestNeverGates ==
    (probe.op = "extract_with_7zip" /\ Preflight(probe.before)) =>
        /\ probe.cmds = <<[cmd |-> "t", success |-> probe.env.test],
                          [cmd |-> "x", success |-> probe.env.exit]>>
        /\ LET other == extract_with_7zip(probe.before, ARC, OutDir,
                                          [probe.env EXCEPT !.test = ~probe.env.test])
           IN  /\ other.ok = probe.ok
               /\ other.err = probe.err
               /\ other.disk = disk

ExtractedAfterFailedTest ==
    /\ probe.op = "extract_with_7zip"
    /\ Preflight(probe.before)
    /\ ~probe.env.test
    /\ probe.env.exit
    /\ probe.ok

(***************************************************************************)
(* Properties of the saved catalog.                                        *)
(***************************************************************************)

\* C23: what json.load reads from what json.dump writes for the catalog is
\* the catalog: the categories in their order with name and time of
\* creation, the archives in their order with their sessions, flags and
\* category (None included); and a restart after a save brings back the
\* categories and archives the program held.
PersistenceRoundTrip ==
    /\ [](json_load(json_dump(categories, archives)) =
             [categories |-> categories, archives |-> archives])
    /\ [][(Restart /\ saved = Snapshot(categories, archives)) =>
             (categories' = categories /\ archives' = archives)]_vars

RestartedWithBothKinds ==
    /\ worker = 0
    /\ runs # <<>>
    /\ categories # <<>>
    /\ saved = Snapshot(categories, archives)
    /\ \E j, k \in 1..Len(archives) :
          /\ archives[j].category_index = NoneIdx
          /\ archives[k].category_index >= 0
          /\ archives[k].sessions # <<>>

\* C35: whenever the classifier answers "profile", default_path is set: the
\* parent directory under rule 1, the classified directory otherwise.
ProfileHasRoot ==
    (probe.op = "analyze_session_folder" /\ probe.result.is_chrome_profile) =>
        /\ probe.result.default_path # NonePath
        /\ probe.result.default_path =
              IF Basename(probe.path) = Default
                 /\ profile_files_present(disk, probe.path) # <<>>
              THEN Dirname(probe.path)
              ELSE probe.path

(***************************************************************************)
(* Properties of the unpacking of the archives found inside the input.     *)
(***************************************************************************)

\* C31 as stated: the path of a session of an unpacked archive is the
\* directory the archive was unpacked into or a directory directly inside it,
\* never one two or more levels down.
AdoptedWithinOneLevel ==
    \A r \in 1..Len(runs) :
        runs[r].session_archives # <<>> =>
            \A k \in 1..Len(runs[r].sessions) :
                LET session_dir == Join(runs[r].temp_dir, runs[r].sessions[k].name)
                IN  /\ Under(Norm(runs[r].sessions[k].path), Norm(session_dir))
                    /\ LevelsBelow(runs[r].sessions[k].path, session_dir) <= 1

\* C31: when an archive found inside the input has been unpacked, its session
\* is appended with the directory it was unpacked into; when that directory
\* is no profile and directories below it are, the path of the (first)
\* session of that name becomes one of them: one directly inside when there
\* is such a one, else one further down, at any depth.
AdoptedBelowAtAnyDepth ==
    [][\A r \in 1..Len(runs) :
          (/\ runs[r].pc = "extract"
           /\ Len(runs'[r].sessions) = Len(runs[r].sessions) + 1) =>
             LET n == Len(runs'[r].sessions)
                 session_name == runs'[r].sessions[n].name
                 session_dir == Join(runs[r].temp_dir, session_name)
                 below == {q \in disk'.dirs :
                             /\ Under(q, Norm(session_dir))
                             /\ q # Norm(session_dir)
                             /\ analyze_session_folder(disk', q).is_chrome_profile}
                 inside == {q \in below : LevelsBelow(q, session_dir) = 1}
                 first == CHOOSE k \in 1..n : /\ runs'[r].sessions[k].name = session_name
                                              /\ \A j \in 1..(k - 1) :
                                                    runs'[r].sessions[j].name # session_name
             IN  /\ first < n => runs'[r].sessions[n].path = session_dir
                 /\ IF analyze_session_folder(disk', session_dir).is_chrome_profile
                       \/ below = {}
                    THEN runs'[r].sessions[n].path = session_dir
                    ELSE IF inside # {}
                    THEN Norm(runs'[r].sessions[first].path) \in inside
                    ELSE Norm(runs'[r].sessions[first].path) \in below]_vars

AdoptedTwoLevelsDown ==
    \E r \in 1..Len(runs) :
        /\ runs[r].pc = "done"
        /\ runs[r].session_archives # <<>>
        /\ \E k \in 1..Len(runs[r].sessions) :
              LevelsBelow(runs[r].sessions[k].path,
                          Join(runs[r].temp_dir, runs[r].sessions[k].name)) = 2

\* C32: within one run no two archives found inside the input are unpacked
\* into the same directory, and the sessions of the run have pairwise distinct
\* paths.
CandidatesKeptApart ==
    \A r \in 1..Len(runs) :
        /\ \A i, j \in 1..Len(runs[r].session_archives) :
              i # j =>
                 Join(runs[r].temp_dir,
                      SplitextRoot(Basename(runs[r].session_archives[i]))) #
                 Join(runs[r].temp_dir,
                      SplitextRoot(Basename(runs[r].session_archives[j])))
        /\ \A k, l \in 1..Len(runs[r].sessions) :
              k # l => runs[r].sessions[k].path # runs[r].sessions[l].path

\* C33: when archives were found inside the input, the sessions of a result
\* are those of the archives that were unpacked, one each and in the order
\* they were found, each at or below the directory its archive was unpacked
\* into; the profile directories the input held are none of them.
SessionsFromCandidatesOnly ==
    \A r \in 1..Len(runs) :
        (/\ runs[r].pc = "done"
         /\ runs[r].session_archives # <<>>
         /\ runs[r].emitted[Len(runs[r].emitted)].sig = "finished") =>
            LET unpacked == Outcome(runs[r], runs[r].session_archives, FALSE)
                result == runs[r].emitted[Len(runs[r].emitted)].sessions
            IN  /\ Len(result) = Len(unpacked)
                /\ \A k \in 1..Len(result) :
                      /\ result[k].name = SplitextRoot(Basename(unpacked[k]))
                      /\ Under(Norm(result[k].path),
                               Norm(Join(runs[r].temp_dir, result[k].name)))

ProfileBesideCandidate ==
    \E r \in 1..Len(runs) :
        /\ runs[r].pc = "done"
        /\ runs[r].session_archives # <<>>
        /\ runs[r].emitted[Len(runs[r].emitted)].sig = "finished"
        /\ analyze_session_folder(disk, Join(runs[r].source_dir, <<"P">>)).is_chrome_profile
        /\ \A k \in 1..Len(runs[r].sessions) : runs[r].sessions[k].name = <<"X">>

\* C34: a run that found archives inside the input and unpacked none of them
\* ends with the error that names every one of them once, in the order they
\* were found; a run that found neither archives nor profiles ends with the
\* error that nothing was found.
EmptyResultFails ==
    \A r \in 1..Len(runs) :
        (runs[r].pc = "done" /\ runs[r].sessions = <<>>
            /\ \E k \in 1..Len(runs[r].emitted) : runs[r].emitted[k] = Progress(40)) =>
            LET last == runs[r].emitted[Len(runs[r].emitted)]
            IN  IF runs[r].session_archives # <<>>
                THEN /\ last.sig = "error"
                     /\ last.msg.kind = "AllArchivesFailed"
                     /\ [k \in 1..Len(last.msg.failed) |-> last.msg.failed[k].path] =
                           runs[r].session_archives
                ELSE last = Error("NoProfileFound", <<>>)

SeveralCandidatesFailed ==
    \E r \in 1..Len(runs) :
        /\ runs[r].pc = "done"
        /\ Len(runs[r].session_archives) > 1
        /\ runs[r].sessions = <<>>
        /\ runs[r].emitted[Len(runs[r].emitted)].sig = "error"
        /\ Len(runs[r].emitted[Len(runs[r].emitted)].msg.failed) =
              Len(runs[r].session_archives)

(***************************************************************************)
(* Properties of the references to categories.                             *)
(***************************************************************************)

\* C36: delete_category leaves every archive that was in another category
\* in the category of the same name, and the selected category, when it is
\* not the deleted one, is the same category afterwards.
DeleteCategoryKeepsReferences ==
    [][\A c \in 0..(Len(categories) - 1) :
          delete_category(c) =>
            /\ \A j \in 1..Len(archives) :
                  archives[j].category_index \notin {NoneIdx, c} =>
                     /\ archives'[j].category_index \in 0..(Len(categories') - 1)
                     /\ categories'[archives'[j].category_index + 1] =
                           categories[archives[j].category_index + 1]
            /\ (current_category_index >= 0 /\ current_category_index # c) =>
                  /\ current_category_index' \in 0..(Len(categories') - 1)
                  /\ categories'[current_category_index' + 1] =
                        categories[current_category_index + 1]]_vars

(***************************************************************************)
(* The program started on a data file that holds three categories: the     *)
(* clicks on a category, the deletions of a category and the ingestions.   *)
(***************************************************************************)
StoredCategories == <<Category("x", 0), Category("X", 1), Category("y", 2)>>

\* __init__ with load_data reading the file of an earlier session
InitStored ==
    /\ saved = Snapshot(StoredCategories, <<>>)
    /\ categories = json_load(saved.doc).categories
    /\ archives = json_load(saved.doc).archives
    /\ current_archive_index = -1
    /\ current_category_index = -1
    /\ sessions_list = <<>>
    /\ worker = 0
    /\ runs = <<>>
    /\ queue = <<>>
    /\ disk = InitDisk([tool |-> TRUE, arc |-> "profile", fol |-> "profile"])
    /\ clock = Len(StoredCategories)
    /\ unlinked = 0
    /\ delete_errors = 0
    /\ requests = 0
    /\ pending = <<>>
    /\ probe = NoProbe

SelectCategory ==
    \E index \in 0..(Len(categories) - 1) : on_tree_item_clicked_category(index)

DeleteCategory == \E index \in 0..(Len(categories) - 1) : delete_category(index)

NextReindex ==
    \/ Worker
    \/ Deliver
    \/ Ingest
    \/ SelectCategory
    \/ DeleteCategory

SpecReindex == InitStored /\ [][NextReindex]_vars

(***************************************************************************)
(* The pipeline with its worker threads scheduled: a thread that has not   *)
(* ended is not held back for ever.  A call of the tool and a walk of a    *)
(* directory return within the step that makes them.  This is              *)
(* WF_vars(run(r)) with "run(r) can take a step" written as "run r has not *)
(* ended"; RunsTerminate shows that the second implies the first.          *)
(***************************************************************************)
Active(r) == r \in 1..Len(runs) /\ runs[r].pc # "done"

Scheduled(r) == []<>(~Active(r)) \/ []<><<r \in 1..Len(runs) /\ run(r)>>_vars

SpecPipelineFair == SpecPipeline /\ \A r \in 1..MaxRequests : Scheduled(r)

\* what the next step of run r may leave
Outcomes(r) ==
    CASE runs[r].pc = "start" -> Prepared(r)
      [] runs[r].pc = "rootcheck" -> RootChecked(r)
      [] runs[r].pc = "archive_search" -> ArchivesSearched(r)
      [] runs[r].pc = "profile_search" -> ProfilesSearched(r)
      [] runs[r].pc = "extract" -> CandidateExtracted(r)
      [] runs[r].pc = "finalize" -> Finalized(r)
      [] OTHER -> {}

\* run r has emitted finished or error
HasTerminal(r) == \E k \in 1..Len(runs[r].emitted) : Terminal(runs[r].emitted[k])

\* C37: a run that has not ended can always take its next step, and every
\* started run emits finished or error in the end.
RunsTerminate ==
    /\ [](\A r \in 1..Len(runs) :
             runs[r].pc # "done" =>
                \E o \in Outcomes(r) : ENABLED <<Step(r, o.rec, o.sigs, o.d)>>_vars)
    /\ \A r \in 1..MaxRequests :
          (r \in 1..Len(runs)) ~> (r \in 1..Len(runs) /\ HasTerminal(r))

\* a run has ended after candidates of it failed
RunEndedAfterFailures ==
    \E r \in 1..Len(runs) :
        runs[r].pc = "done" /\ HasTerminal(r) /\ runs[r].failed_archives # <<>>

\* run r has ended with signal sig
EndedWith(r, sig) ==
    /\ runs[r].pc = "done"
    /\ runs[r].emitted # <<>>
    /\ runs[r].emitted[Len(runs[r].emitted)].sig = sig

\* C38: a run that has ended in error has emitted no progress of 100, a run
\* that has ended in finished has emitted the progress 100 before it, and a
\* run that has emitted 100 and has not ended holds a session, so that it
\* ends in finished.
HundredIffSucceeded ==
    \A r \in 1..Len(runs) :
        LET values == ProgressValues(r)
            hundred == \E k \in 1..Len(values) : values[k] = 100
        IN  /\ EndedWith(r, "error") => \A k \in 1..Len(values) : values[k] < 100
            /\ EndedWith(r, "finished") =>
                  \E k \in 1..(Len(runs[r].emitted) - 1) :
                      runs[r].emitted[k] = Progress(100)
            /\ (hundred /\ runs[r].pc # "done") => runs[r].sessions # <<>>

\* one run has failed after the progress of its search for archives, another
\* has succeeded although its last candidate failed
FailedAfterProgressAndSucceeded ==
    \E r, q \in 1..Len(runs) :
        /\ EndedWith(r, "error") /\ ProgressValues(r) # <<>>
        /\ ProgressValues(r)[Len(ProgressValues(r))] = 40
        /\ EndedWith(q, "finished") /\ runs[q].failed_archives # <<>>
        /\ runs[q].failed_archives[Len(runs[q].failed_archives)].path
              = runs[q].session_archives[Len(runs[q].session_archives)]

(***************************************************************************)
(* What the deletion of an archive removes from the disk.                  *)
(***************************************************************************)

\* d lies in a directory that an ingestion has made for what it unpacks
\* (temp_dir: extracted_<name> beside the input)
InExtractionDir(d) == \E i \in 1..Len(d) : d[i] = "extracted_"

\* C39: delete_selected_archive removes no directory but extraction
\* directories and what lies in them: the folder the user handed over and
\* every other directory outside the extraction directories stay.
DeletionSparesInput ==
    [][delete_selected_archive =>
          \A d \in disk.dirs \ disk'.dirs : InExtractionDir(d)]_vars

(***************************************************************************)
(* The data file and the catalog in memory.                                *)
(***************************************************************************)

\* what the data file holds is the catalog in memory (no file yet: an empty
\* catalog)
SnapshotCurrent ==
    IF saved.exists
    THEN /\ saved = Snapshot(categories, archives)
         /\ json_load(saved.doc) = [categories |-> categories, archives |-> archives]
    ELSE categories = <<>> /\ archives = <<>>

\* C40: between two handlers of the main window the data file holds the
\* catalog that is in memory, and a deletion that has failed has changed
\* neither of them.
SnapshotFollowsCatalog ==
    /\ []SnapshotCurrent
    /\ [][delete_errors' # delete_errors => UNCHANGED <<categories, archives, saved>>]_vars

\* the file has been written after a failed deletion, with a category in
\* use and an archive whose sessions were deleted
SavedAfterEveryKind ==
    /\ saved.exists
    /\ delete_errors > 0
    /\ \E j \in 1..Len(archives) :
          archives[j].category_index >= 0 /\ archives[j].sessions = <<>>

\* the user edits the categories and moves archives, with indexes of the tree
Edit ==
    \/ \E name \in CategoryNames : add_category(name)
    \/ \E index \in 0..(Len(categories) - 1), name \in CategoryNames :
          rename_category(index, name)
    \/ \E a \in 0..(Len(archives) - 1), c \in {NoneIdx} \union (0..(Len(categories) - 1)) :
          move_archive_to_category(a, c)

NextForeground ==
    \/ Worker
    \/ Deliver
    \/ \E p \in UserPaths : select_file_or_folder(p)
    \/ Edit
    \/ DeleteCategory
    \/ RemoveArchive
    \/ RemoveSessions

\* every handler that changes the catalog, on a disk with an archive and a
\* folder that are profiles
SpecForeground ==
    InitOn({[tool |-> TRUE, arc |-> "profile", fol |-> "profile"]})
        /\ [][NextForeground]_vars

=============================================================================
